---- MODULE Spec2Model ----
(***************************************************************************)
(* A model of the knix chess rules engine: the coordinate model, the       *)
(* packed board storage, the piece model, the pseudo-legal move generator, *)
(* the king-safety filter, move application and the game-state transition. *)
(* BoardPiece values are their u8 discriminants, BoardIndex values the     *)
(* integers 0..63, Option::None of a piece is NoPiece and Option::None of  *)
(* an index is NoIndex.  A panic (failed expect/unwrap, failed debug       *)
(* assertion, overflow in a debug build) ends the run in status "panic".   *)
(* status is "new" before the call under check, "ok" once a game state     *)
(* exists, "error" when a parse returned an error and "done" after a pure  *)
(* call.                                                                   *)
(***************************************************************************)
EXTENDS Integers, Sequences, FiniteSets, TLC

VARIABLES
    board,              \* GameState.board: the 32 packed bytes
    next_move,          \* GameState.next_move
    castling_rights,    \* GameState.castling_rights (u8 bit set)
    en_passant_target,  \* GameState.en_passant_target (NoIndex when absent)
    half_move_clock,    \* GameState.half_move_clock (u8)
    full_move_counter,  \* GameState.full_move_counter (u16)
    status,             \* "ok", or "panic" once a call has aborted
    ply,                \* number of perform_move calls made so far
    last_move,          \* the Move handed to the last perform_move
    prev,               \* the GameState the last perform_move was applied to
    offered,            \* what legal_moves returned to the caller of the last move
    black_moves,        \* number of performed moves that moved a black piece
    left_home,          \* the home squares a king or rook has moved away from
    input,              \* the argument of the call under check (a text, an index, ...)
    output              \* what the call answered

vars == <<board, next_move, castling_rights, en_passant_target,
          half_move_clock, full_move_counter, status, ply, last_move, prev,
          offered, black_moves, left_home, input, output>>

\* ------------------------------------------------------------------ bounds

MaxPly == 2

\* The number of moves of a game played about the home squares.
MaxHomePly == 5

\* The longest text handed to the square-name parser.
MaxNameLen == 3

\* The longest sequence of set_piece calls made on the empty board.
MaxSets == 2

\* Delta components run over -MaxDelta..MaxDelta and the ends of the i8 range.
MaxDelta == 9

\* ------------------------------------------------------- Option encodings

NoPiece == 0
NoIndex == -1

\* ------------------------------------------------------------ piece model

White == 0
Black == 1

Pawn == 1
Rook == 2
Knight == 3
Bishop == 4
Queen == 5
King == 6

WhitePawn == 1
WhiteRook == 2
WhiteKnight == 3
WhiteBishop == 4
WhiteQueen == 5
WhiteKing == 6
BlackPawn == 9
BlackRook == 10
BlackKnight == 11
BlackBishop == 12
BlackQueen == 13
BlackKing == 14

BoardPieces == {WhitePawn, WhiteRook, WhiteKnight, WhiteBishop, WhiteQueen, WhiteKing,
                BlackPawn, BlackRook, BlackKnight, BlackBishop, BlackQueen, BlackKing}

of_color(kind, color) == kind + 8 * color

PieceColor_other_wrong(c) == c

PieceColor_other(c) == IF c = Black THEN White ELSE Black

king_of_color_wrong(c) == IF c = White THEN BlackKing ELSE WhiteKing

king_of_color(c) == IF c = White THEN WhiteKing ELSE BlackKing

\* BoardPiece::split as the table of its twelve arms, indexed by discriminant.
SplitTable ==
    [p \in BoardPieces |->
        CASE p = WhitePawn   -> <<Pawn, White>>
          [] p = BlackPawn   -> <<Pawn, Black>>
          [] p = WhiteRook   -> <<Rook, White>>
          [] p = BlackRook   -> <<Rook, Black>>
          [] p = WhiteKnight -> <<Knight, White>>
          [] p = BlackKnight -> <<Knight, Black>>
          [] p = WhiteBishop -> <<Bishop, White>>
          [] p = BlackBishop -> <<Bishop, Black>>
          [] p = WhiteQueen  -> <<Queen, White>>
          [] p = BlackQueen  -> <<Queen, Black>>
          [] p = WhiteKing   -> <<King, White>>
          [] p = BlackKing   -> <<King, Black>>]

split(p) == SplitTable[p]

kind(p) == split(p)[1]

color(p) == split(p)[2]

\* ------------------------------------------------------- fixed-width ints

\* `x as u8` of a signed 8-bit value.
AsU8(x) == x % 256

\* Two's-complement wrap of an integer into i8.
WrapI8(x) == ((x + 128) % 256) - 128

InI8(x) == x >= -128 /\ x <= 127

\* ------------------------------------------------------- coordinate model

rank(pos) == (pos \div 8) + 1

file(pos) == (pos % 8) + 1

BoardIndex_new(pos) == IF pos >= 0 /\ pos < 64 THEN pos ELSE NoIndex

BoardIndexDelta_new(dr, df) == [delta_rank |-> dr, delta_file |-> df]

delta_file(df) == BoardIndexDelta_new(0, df)

delta_rank(dr) == BoardIndexDelta_new(dr, 0)

\* The i8 sum of unchecked_add overflows (a debug build aborts there).
unchecked_add_overflows(self, rhs) ==
    \/ ~InI8(8 * rhs.delta_rank)
    \/ ~InI8(self + WrapI8(8 * rhs.delta_rank))
    \/ ~InI8(WrapI8(self + WrapI8(8 * rhs.delta_rank)) + rhs.delta_file)

\* The wrapped value of unchecked_add (every build when nothing overflows).
unchecked_add(self, rhs) ==
    AsU8(WrapI8(WrapI8(self + WrapI8(8 * rhs.delta_rank)) + rhs.delta_file))

\* The guards of checked_add that answer None.
checked_add_is_none(self, rhs) ==
    \/ rhs.delta_rank < 0 /\ rank(self) <= AsU8(WrapI8(-rhs.delta_rank))
    \/ rhs.delta_rank > 0 /\ rank(self) > AsU8(WrapI8(8 - rhs.delta_rank))
    \/ rhs.delta_file < 0 /\ file(self) <= AsU8(WrapI8(-rhs.delta_file))
    \/ rhs.delta_file > 0 /\ file(self) > AsU8(WrapI8(8 - rhs.delta_file))

checked_add(self, rhs) ==
    IF checked_add_is_none(self, rhs) THEN NoIndex ELSE unchecked_add(self, rhs)

\* A debug build aborts inside checked_add: `neg()` of -128 in a guard that is
\* reached, or an overflowing sum in unchecked_add.
checked_add_debug_aborts(self, rhs) ==
    \/ rhs.delta_rank = -128
    \/ /\ rhs.delta_file = -128
       /\ ~(rhs.delta_rank < 0 /\ rank(self) <= AsU8(WrapI8(-rhs.delta_rank)))
       /\ ~(rhs.delta_rank > 0 /\ rank(self) > AsU8(WrapI8(8 - rhs.delta_rank)))
    \/ ~checked_add_is_none(self, rhs) /\ unchecked_add_overflows(self, rhs)

\* What a call of checked_add may end with: the value a build without
\* overflow checks computes and, where a debug build aborts, the abort.
checked_add_outcomes(self, rhs) ==
    { [tag |-> "Ok", value |-> checked_add(self, rhs)] }
    \cup (IF checked_add_debug_aborts(self, rhs) THEN { [tag |-> "Panic"] } ELSE {})

\* ---------------------------------------------------- packed board storage

get_piece0(r) == IF r - (r % 16) = 0 THEN NoPiece ELSE r \div 16

get_piece1(r) == IF r % 16 = 0 THEN NoPiece ELSE r % 16

set_piece0_wrong(r, p0) == IF p0 # NoPiece THEN p0 * 16 ELSE 0

set_piece0(r, p0) == (r % 16) + (IF p0 # NoPiece THEN p0 * 16 ELSE 0)

set_piece1(r, p1) == (r - (r % 16)) + (IF p1 # NoPiece THEN p1 ELSE 0)

init_empty(n) == [i \in 0..(n - 1) |-> 0]

set_piece(repr, index, p) ==
    IF index % 2 = 0
    THEN [repr EXCEPT ![index \div 2] = set_piece0(@, p)]
    ELSE [repr EXCEPT ![index \div 2] = set_piece1(@, p)]

get_piece(repr, index) ==
    IF index % 2 = 0 THEN get_piece0(repr[index \div 2]) ELSE get_piece1(repr[index \div 2])

get_piece_at(b, index) == get_piece(b, index)

\* ------------------------------------------------------------- move model

Simple(start, end) == [kind |-> "Simple", start |-> start, end |-> end]

EnPassant(ept, doing, captured) ==
    [kind |-> "EnPassant", en_passant_target |-> ept,
     pawn_doing_en_passant |-> doing, pawn_being_captured |-> captured]

Castle(king_from, king_to, rook_from, rook_to) ==
    [kind |-> "Castle", king_from |-> king_from, king_to |-> king_to,
     rook_from |-> rook_from, rook_to |-> rook_to]

\* Move::from_delta(..).unwrap() at a delta piece_at_delta has found on the board.
from_delta(pos, delta) == Simple(pos, checked_add(pos, delta))

\* ---------------------------------------------------------- move generator

piece_at_delta_wrong(b, position, d) ==
    <<checked_add(position, d) # NoIndex, NoPiece>>

\* The closure piece_at_delta: <<on the board, occupant>>.
piece_at_delta(b, position, d) ==
    LET new_pos == checked_add(position, d)
    IN  IF new_pos # NoIndex THEN <<TRUE, get_piece_at(b, new_pos)>> ELSE <<FALSE, NoPiece>>

RECURSIVE ray(_, _, _, _, _)
\* One direction of std_directional from step i on.
ray(b, position, self_color, dir, i) ==
    IF i > 7 THEN <<>>
    ELSE LET delta == BoardIndexDelta_new(dir[1] * i, dir[2] * i)
             pd == piece_at_delta(b, position, delta)
         IN  IF pd[1] /\ pd[2] = NoPiece
             THEN <<from_delta(position, delta)>> \o ray(b, position, self_color, dir, i + 1)
             ELSE IF pd[1] /\ color(pd[2]) # self_color
                  THEN <<from_delta(position, delta)>>
                  ELSE <<>>

RECURSIVE std_directional(_, _, _, _)
std_directional(b, position, self_color, directions) ==
    IF directions = <<>> THEN <<>>
    ELSE ray(b, position, self_color, Head(directions), 1)
         \o std_directional(b, position, self_color, Tail(directions))

RECURSIVE direct(_, _, _, _)
direct(b, position, self_color, dirs) ==
    IF dirs = <<>> THEN <<>>
    ELSE LET delta == Head(dirs)
             pd == piece_at_delta(b, position, delta)
         IN  (IF pd[1] /\ (pd[2] = NoPiece \/ color(pd[2]) # self_color)
              THEN <<from_delta(position, delta)>> ELSE <<>>)
             \o direct(b, position, self_color, Tail(dirs))

pawn_start_rank_wrong(direction, position) ==
    (direction = 1 /\ rank(position) = 3) \/ (direction = -1 /\ rank(position) = 6)

\* "check for starting position."
pawn_start_rank(direction, position) ==
    (direction = 1 /\ rank(position) = 2) \/ (direction = -1 /\ rank(position) = 7)

pawn_advances(b, position, direction) ==
    LET one == piece_at_delta(b, position, delta_rank(direction))
    IN  IF one[1] /\ one[2] = NoPiece
        THEN <<from_delta(position, delta_rank(direction))>>
             \o (IF pawn_start_rank(direction, position)
                 THEN LET two == piece_at_delta(b, position, delta_rank(2 * direction))
                      IN  IF two[1] /\ two[2] = NoPiece
                          THEN <<from_delta(position, delta_rank(2 * direction))>>
                          ELSE <<>>
                 ELSE <<>>)
        ELSE <<>>

pawn_capture_wrong(b, position, self_color, direction, df) ==
    LET pd == piece_at_delta(b, position, BoardIndexDelta_new(direction, df))
    IN  IF pd[1] /\ (pd[2] = NoPiece \/ color(pd[2]) # self_color)
        THEN <<from_delta(position, BoardIndexDelta_new(direction, df))>>
        ELSE <<>>

pawn_capture(b, position, self_color, direction, df) ==
    LET pd == piece_at_delta(b, position, BoardIndexDelta_new(direction, df))
    IN  IF pd[1] /\ pd[2] # NoPiece /\ color(pd[2]) # self_color
        THEN <<from_delta(position, BoardIndexDelta_new(direction, df))>>
        ELSE <<>>

\* `position + delta` in the en-passant part aborts when the sum leaves the board.
pawn_en_passant_panics(position, direction, ept) ==
    /\ ept # NoIndex
    /\ \/ checked_add(position, BoardIndexDelta_new(direction, 1)) = NoIndex
       \/ checked_add(position, BoardIndexDelta_new(direction, -1)) = NoIndex

pawn_en_passant_side(position, direction, ept, df) ==
    IF ept = checked_add(position, BoardIndexDelta_new(direction, df))
    THEN <<EnPassant(ept, position, checked_add(position, delta_file(df)))>>
    ELSE <<>>

pawn_en_passant(position, direction, ept) ==
    IF ept = NoIndex THEN <<>>
    ELSE pawn_en_passant_side(position, direction, ept, 1)
         \o pawn_en_passant_side(position, direction, ept, -1)

\* The closure pawn: [ok |-> it returned, moves |-> what it pushed].
pawn(b, position, self_color, direction, ept) ==
    IF pawn_en_passant_panics(position, direction, ept)
    THEN [ok |-> FALSE, moves |-> <<>>]
    ELSE [ok |-> TRUE,
          moves |-> pawn_advances(b, position, direction)
                    \o pawn_capture(b, position, self_color, direction, -1)
                    \o pawn_capture(b, position, self_color, direction, 1)
                    \o pawn_en_passant(position, direction, ept)]

RookDirections == << <<-1, 0>>, <<1, 0>>, <<0, -1>>, <<0, 1>> >>

BishopDirections == << <<-1, -1>>, <<-1, 1>>, <<1, -1>>, <<1, 1>> >>

QueenDirections ==
    << <<-1, 0>>, <<1, 0>>, <<0, -1>>, <<0, 1>>, <<-1, -1>>, <<-1, 1>>, <<1, -1>>, <<1, 1>> >>

KnightDeltas ==
    << BoardIndexDelta_new(-2, -1), BoardIndexDelta_new(-2, 1),
       BoardIndexDelta_new(-1, -2), BoardIndexDelta_new(-1, 2),
       BoardIndexDelta_new(1, -2), BoardIndexDelta_new(1, 2),
       BoardIndexDelta_new(2, -1), BoardIndexDelta_new(2, 1) >>

KingDeltas ==
    << BoardIndexDelta_new(-1, -1), BoardIndexDelta_new(-1, 0),
       BoardIndexDelta_new(-1, 1), BoardIndexDelta_new(0, -1),
       BoardIndexDelta_new(0, 1), BoardIndexDelta_new(1, -1),
       BoardIndexDelta_new(1, 0), BoardIndexDelta_new(1, 1) >>

moves_on_board_castling(self, position, b, ept, cr) ==
    LET self_color == color(self)
        k == kind(self)
    IN  CASE self = WhitePawn -> pawn(b, position, self_color, 1, ept)
          [] self = BlackPawn -> pawn(b, position, self_color, -1, ept)
          [] k = Rook -> [ok |-> TRUE, moves |-> std_directional(b, position, self_color, RookDirections)]
          [] k = Knight -> [ok |-> TRUE, moves |-> direct(b, position, self_color, KnightDeltas)]
          [] k = Bishop -> [ok |-> TRUE, moves |-> std_directional(b, position, self_color, BishopDirections)]
          [] k = Queen -> [ok |-> TRUE, moves |-> std_directional(b, position, self_color, QueenDirections)]
          [] k = King ->
                [ok |-> TRUE,
                 moves |-> direct(b, position, self_color, KingDeltas)
                           \o (IF cr # 0 /\ file(position) = 5
                               THEN <<Castle(position, position - 2, position - 4, position - 1)>>
                               ELSE <<>>)]

\* BoardPiece::moves_on_board: [ok |-> it returned, moves |-> the Vec<Move>].
moves_on_board(self, position, b, ept, cr) ==
    LET self_color == color(self)
        k == kind(self)
    IN  CASE self = WhitePawn -> pawn(b, position, self_color, 1, ept)
          [] self = BlackPawn -> pawn(b, position, self_color, -1, ept)
          [] k = Rook -> [ok |-> TRUE, moves |-> std_directional(b, position, self_color, RookDirections)]
          [] k = Knight -> [ok |-> TRUE, moves |-> direct(b, position, self_color, KnightDeltas)]
          [] k = Bishop -> [ok |-> TRUE, moves |-> std_directional(b, position, self_color, BishopDirections)]
          [] k = Queen -> [ok |-> TRUE, moves |-> std_directional(b, position, self_color, QueenDirections)]
          [] k = King -> [ok |-> TRUE, moves |-> direct(b, position, self_color, KingDeltas)]

\* The indices iter_pieces yields, in its order.
AllSquares == [i \in 1..64 |-> i - 1]

\* Board::piece_iterator filtered by color: the squares holding a piece of
\* `turn`, in the order iter_pieces visits them (index order).
squares_of(b, turn) ==
    LET Mine(idx) == get_piece_at(b, idx) # NoPiece /\ color(get_piece_at(b, idx)) = turn
    IN  SelectSeq(AllSquares, Mine)

RECURSIVE flat_map_moves(_, _, _, _, _)
\* The flat_map of all_possible_moves_for_turn, drained from the i-th piece on.
flat_map_moves(b, squares, i, ept, cr) ==
    IF i > Len(squares) THEN [ok |-> TRUE, moves |-> <<>>]
    ELSE LET here == moves_on_board(get_piece_at(b, squares[i]), squares[i], b, ept, cr)
         IN  IF ~here.ok THEN [ok |-> FALSE, moves |-> <<>>]
             ELSE LET rest == flat_map_moves(b, squares, i + 1, ept, cr)
                  IN  [ok |-> rest.ok, moves |-> here.moves \o rest.moves]

\* Board::all_possible_moves_for_turn, drained:
\* [ok |-> no generator call aborted, moves |-> the moves in iteration order].
all_possible_moves_for_turn(b, turn, ept, cr) ==
    flat_map_moves(b, squares_of(b, turn), 1, ept, cr)

\* ---------------------------------------------------------- castle rights

Bit(x, i) == (x \div (2 ^ i)) % 2

FromBits(f) ==
    f[0] + 2 * f[1] + 4 * f[2] + 8 * f[3] + 16 * f[4] + 32 * f[5] + 64 * f[6] + 128 * f[7]

BitAnd8(a, b) == FromBits([i \in 0..7 |-> Bit(a, i) * Bit(b, i)])

BitOr8(a, b) == FromBits([i \in 0..7 |-> IF Bit(a, i) + Bit(b, i) > 0 THEN 1 ELSE 0])

BitNot8(a) == 255 - a

EMPTY == 0
WHITE_KING_SIDE == 1
WHITE_QUEEN_SIDE == 2
BLACK_KING_SIDE == 4
BLACK_QUEEN_SIDE == 8

CastleRights_revoke_wrong(rights, revoked) == BitOr8(rights, revoked)

CastleRights_revoke(rights, revoked) == BitAnd8(rights, BitNot8(revoked))

has_rights(rights, k) == BitAnd8(rights, k) = k

\* ------------------------------------------------------------------ clocks

HalfMoveClock_reset == 0

\* `self.clock += 1` as a release build computes it.
HalfMoveClock_advance(clock) == (clock + 1) % 256

HalfMoveClock_advance_overflows(clock) == clock + 1 > 255

FullMoveCounter_inc_wrong(counter) == (counter + 2) % 65536

\* `self.counter += 1` as a release build computes it.
FullMoveCounter_inc(counter) == (counter + 1) % 65536

FullMoveCounter_inc_overflows(counter) == counter + 1 > 65535

\* -------------------------------------------------------- move application

revoked_castle_rights_rooks_only(piece, start) ==
    CASE piece = WhiteRook ->
            (CASE start = 0 -> WHITE_QUEEN_SIDE [] start = 7 -> WHITE_KING_SIDE [] OTHER -> EMPTY)
      [] piece = BlackRook ->
            (CASE start = 56 -> BLACK_QUEEN_SIDE [] start = 63 -> BLACK_KING_SIDE [] OTHER -> EMPTY)
      [] OTHER -> EMPTY

revoked_castle_rights_wrong(piece, start) ==
    CASE piece = WhiteRook ->
            (CASE start = 0 -> WHITE_KING_SIDE [] start = 7 -> WHITE_QUEEN_SIDE [] OTHER -> EMPTY)
      [] piece = BlackRook ->
            (CASE start = 56 -> BLACK_KING_SIDE [] start = 63 -> BLACK_QUEEN_SIDE [] OTHER -> EMPTY)
      [] piece = WhiteKing -> BitOr8(WHITE_KING_SIDE, WHITE_QUEEN_SIDE)
      [] piece = BlackKing -> BitOr8(BLACK_KING_SIDE, BLACK_QUEEN_SIDE)
      [] OTHER -> EMPTY

\* The revoked_castle_rights field simple_move fills in.
revoked_castle_rights(piece, start) ==
    CASE piece = WhiteRook ->
            (CASE start = 0 -> WHITE_QUEEN_SIDE [] start = 7 -> WHITE_KING_SIDE [] OTHER -> EMPTY)
      [] piece = BlackRook ->
            (CASE start = 56 -> BLACK_QUEEN_SIDE [] start = 63 -> BLACK_KING_SIDE [] OTHER -> EMPTY)
      [] piece = WhiteKing -> BitOr8(WHITE_KING_SIDE, WHITE_QUEEN_SIDE)
      [] piece = BlackKing -> BitOr8(BLACK_KING_SIDE, BLACK_QUEEN_SIDE)
      [] OTHER -> EMPTY

new_en_passant_target_origin(piece, start, end) ==
    CASE piece = WhitePawn /\ (end - start) % 256 = 16 -> start
      [] piece = BlackPawn /\ (start - end) % 256 = 16 -> start
      [] OTHER -> NoIndex

new_en_passant_target_wrong(piece, start, end) ==
    CASE piece = WhitePawn /\ (end - start) % 256 = 16 -> end
      [] piece = BlackPawn /\ (start - end) % 256 = 16 -> end
      [] OTHER -> NoIndex

\* The u8 differences are those of a release build.
new_en_passant_target(piece, start, end) ==
    CASE piece = WhitePawn /\ (end - start) % 256 = 16 -> start + 8
      [] piece = BlackPawn /\ (start - end) % 256 = 16 -> start - 8
      [] OTHER -> NoIndex

\* The u8 difference in the guard of new_en_passant_target wraps.
new_en_passant_target_overflows(piece, start, end) ==
    \/ piece = WhitePawn /\ end - start < 0
    \/ piece = BlackPawn /\ start - end < 0

MoveInfo(c, revoked, captured, advanced, ept) ==
    [moved_piece_color |-> c, revoked_castle_rights |-> revoked, captured |-> captured,
     pawn_advanced |-> advanced, new_en_passant_target |-> ept]

\* What board_after_move answers: ok is FALSE when an unwrap failed, overflow is
\* TRUE when a debug build aborts (integer overflow, failed debug assertion).
Applied(ok, overflow, b, mi) == [ok |-> ok, overflow |-> overflow, board |-> b, mi |-> mi]

NoMoveInfo == MoveInfo(White, EMPTY, NoPiece, FALSE, NoIndex)

\* The closure simple_move of board_after_move.
simple_move(new_board, start, end) ==
    LET piece == get_piece(new_board, start)
        captured == get_piece(new_board, end)
    IN  IF piece = NoPiece THEN Applied(FALSE, FALSE, new_board, NoMoveInfo)
        ELSE Applied(TRUE, new_en_passant_target_overflows(piece, start, end),
                     set_piece(set_piece(new_board, end, piece), start, NoPiece),
                     MoveInfo(color(piece), revoked_castle_rights(piece, start), captured,
                              kind(piece) = Pawn, new_en_passant_target(piece, start, end)))

Option_or(a, b, none) == IF a # none THEN a ELSE b

combine_composite(mi, mi2) ==
    MoveInfo(mi.moved_piece_color,
             BitOr8(mi.revoked_castle_rights, mi2.revoked_castle_rights),
             Option_or(mi.captured, mi2.captured, NoPiece),
             mi.pawn_advanced \/ mi2.pawn_advanced,
             Option_or(mi.new_en_passant_target, mi2.new_en_passant_target, NoIndex))

en_passant_move(b, m) ==
    LET pawn_p == get_piece(b, m.pawn_doing_en_passant)
        captured_pawn == get_piece(b, m.pawn_being_captured)
    IN  IF pawn_p = NoPiece \/ captured_pawn = NoPiece
        THEN Applied(FALSE, FALSE, b, NoMoveInfo)
        ELSE Applied(TRUE, FALSE,
                     set_piece(set_piece(set_piece(b, m.pawn_doing_en_passant, NoPiece),
                                         m.pawn_being_captured, NoPiece),
                               m.en_passant_target, pawn_p),
                     MoveInfo(color(pawn_p), EMPTY, captured_pawn, TRUE, NoIndex))

castle_move(b, m) ==
    LET r1 == simple_move(b, m.king_from, m.king_to)
    IN  IF ~r1.ok THEN r1
        ELSE LET r2 == simple_move(r1.board, m.rook_from, m.rook_to)
             IN  IF ~r2.ok THEN r2
                 ELSE Applied(TRUE,
                              \/ r1.overflow
                              \/ r2.overflow
                              \/ r1.mi.moved_piece_color # r2.mi.moved_piece_color,
                              r2.board, combine_composite(r1.mi, r2.mi))

board_after_move(b, m) ==
    CASE m.kind = "Simple" -> simple_move(b, m.start, m.end)
      [] m.kind = "EnPassant" -> en_passant_move(b, m)
      [] m.kind = "Castle" -> castle_move(b, m)

\* --------------------------------------------------------- legality filter

captures_king(new_board, turn, moves) ==
    \E k \in 1..Len(moves) :
        /\ moves[k].kind = "Simple"
        /\ get_piece_at(new_board, moves[k].end) = king_of_color(turn)

\* What the loop of check_move_validity does with the moves of the opponent's
\* piece on square idx: "panic" (the generator aborts), "false" (one of its
\* Simple moves ends on the king: return false) or "true" (go on).
validity_at(new_board, turn, ept, cr, idx) ==
    LET here == moves_on_board(get_piece_at(new_board, idx), idx, new_board, ept, cr)
    IN  IF ~here.ok THEN "panic"
        ELSE IF captures_king(new_board, turn, here.moves) THEN "false"
        ELSE "true"

\* The loop of check_move_validity: the first piece of the opponent, in
\* iteration order, that ends the loop decides; "true" when none does.
validity_loop(new_board, turn, ept, cr) ==
    LET squares == squares_of(new_board, PieceColor_other(turn))
        v == [i \in 1..Len(squares) |-> validity_at(new_board, turn, ept, cr, squares[i])]
        ending == {i \in 1..Len(squares) : v[i] # "true"}
    IN  IF ending = {} THEN "true"
        ELSE v[CHOOSE i \in ending : \A j \in ending : i <= j]

check_move_validity(b, turn, m, ept, cr) ==
    LET r == board_after_move(b, m)
    IN  IF ~r.ok THEN "panic" ELSE validity_loop(r.board, turn, ept, cr)

IsValid(pair) == pair[2] = "true"

\* The filter of all_legal_moves_for_turn over the drained pseudo-legal moves.
filter_valid(b, turn, ept, cr, moves) ==
    LET checked == [k \in 1..Len(moves) |->
                        <<moves[k], check_move_validity(b, turn, moves[k], ept, cr)>>]
        kept == SelectSeq(checked, IsValid)
    IN  [ok |-> \A k \in 1..Len(moves) : checked[k][2] # "panic",
         moves |-> [k \in 1..Len(kept) |-> kept[k][1]]]

\* Board::all_legal_moves_for_turn, drained: [ok |-> no call aborted, moves |-> ...].
all_legal_moves_for_turn(b, turn, ept, cr) ==
    LET possible == all_possible_moves_for_turn(b, turn, ept, cr)
    IN  IF ~possible.ok THEN [ok |-> FALSE, moves |-> <<>>]
        ELSE filter_valid(b, turn, ept, cr, possible.moves)

\* -------------------------------------------------------------- game state

GameState(b, nm, cr, ept, hmc, fmc) ==
    [board |-> b, next_move |-> nm, castling_rights |-> cr, en_passant_target |-> ept,
     half_move_clock |-> hmc, full_move_counter |-> fmc]

legal_moves(gs) ==
    all_legal_moves_for_turn(gs.board, gs.next_move, gs.en_passant_target, gs.castling_rights)

\* The state perform_move leaves when it returns (wrapping arithmetic).
performed(gs, r) ==
    GameState(r.board,
              PieceColor_other(r.mi.moved_piece_color),
              CastleRights_revoke(gs.castling_rights, r.mi.revoked_castle_rights),
              r.mi.new_en_passant_target,
              IF r.mi.pawn_advanced \/ r.mi.captured # NoPiece
              THEN HalfMoveClock_reset
              ELSE HalfMoveClock_advance(gs.half_move_clock),
              IF r.mi.moved_piece_color = Black
              THEN FullMoveCounter_inc(gs.full_move_counter)
              ELSE gs.full_move_counter)

\* A debug build aborts inside perform_move; a release build carries on.
perform_move_debug_aborts(gs, r) ==
    \/ r.overflow
    \/ gs.next_move # r.mi.moved_piece_color
    \/ /\ ~(r.mi.pawn_advanced \/ r.mi.captured # NoPiece)
       /\ HalfMoveClock_advance_overflows(gs.half_move_clock)
    \/ /\ r.mi.moved_piece_color = Black
       /\ FullMoveCounter_inc_overflows(gs.full_move_counter)

\* GameState::perform_move: the outcomes the builds can produce.
perform_move(gs, m) ==
    LET r == board_after_move(gs.board, m)
    IN  IF ~r.ok THEN {[status |-> "panic", gs |-> gs]}
        ELSE {[status |-> "ok", gs |-> performed(gs, r)]}
             \cup (IF perform_move_debug_aborts(gs, r)
                   THEN {[status |-> "panic", gs |-> gs]} ELSE {})

\* ------------------------------------------------- position text (FEN)
\* A text is a sequence of one-character strings.

Digits == <<"0", "1", "2", "3", "4", "5", "6", "7", "8", "9">>

IsDigit(c) == \E d \in 1..10 : Digits[d] = c

\* `c as u8 - b'0'` of a decimal digit character.
DigitValue(c) == (CHOOSE d \in 1..10 : Digits[d] = c) - 1

\* The first index of sep in s, or 0.
IndexOf(s, sep) ==
    IF \E i \in 1..Len(s) : s[i] = sep
    THEN CHOOSE i \in 1..Len(s) : s[i] = sep /\ \A j \in 1..(i - 1) : s[j] # sep
    ELSE 0

RECURSIVE str_split(_, _)
\* str::split(sep), collected.
str_split(s, sep) ==
    LET i == IndexOf(s, sep)
    IN  IF i = 0 THEN <<s>>
        ELSE <<SubSeq(s, 1, i - 1)>> \o str_split(SubSeq(s, i + 1, Len(s)), sep)

FenPieceChars ==
    << <<"K", WhiteKing>>, <<"k", BlackKing>>, <<"Q", WhiteQueen>>, <<"q", BlackQueen>>,
       <<"B", WhiteBishop>>, <<"b", BlackBishop>>, <<"N", WhiteKnight>>, <<"n", BlackKnight>>,
       <<"R", WhiteRook>>, <<"r", BlackRook>>, <<"P", WhitePawn>>, <<"p", BlackPawn>> >>

to_fen_char(p) == FenPieceChars[CHOOSE i \in 1..12 : FenPieceChars[i][2] = p][1]

try_from_fen_char(c) ==
    IF \E i \in 1..12 : FenPieceChars[i][1] = c
    THEN FenPieceChars[CHOOSE i \in 1..12 : FenPieceChars[i][1] = c][2]
    ELSE NoPiece

\* Results: tag is "Ok", "Err" (err holds the error value) or "Panic" (the call aborted).
Ok(v) == [tag |-> "Ok", value |-> v]

Err(e) == [tag |-> "Err", err |-> e]

Panic == [tag |-> "Panic"]

MissingRank(r) == [error |-> "MissingRank", rank |-> r]

MissingFilesInFEN(n, text) == [error |-> "MissingFilesInFEN", files |-> n, text |-> text]

InvalidFENPieceChar(c) == [error |-> "InvalidFENPieceChar", char |-> c]

MissingFields(n) == [error |-> "MissingFields", field_count |-> n]

ParseInt(k) == [error |-> "ParseInt", kind |-> k]

InvalidBoard(e) == [error |-> "InvalidBoard", inner |-> e]

InvalidNextMove(text) == [error |-> "InvalidNextMove", text |-> text]

InvalidCastleRight(c) == [error |-> "InvalidCastleRight", char |-> c]

\* `self.repr[cell]` of a buffer of n bytes aborts when the cell is not in it.
set_piece_in_bounds(n, index) == index \div 2 < n

parse_rank_end_wrong(fen, cells, idx) ==
    IF idx < 7 THEN Err(MissingFilesInFEN(idx, fen)) ELSE Ok(cells)

\* What Board::parse_rank answers once its loop has read the whole rank.
parse_rank_end(fen, cells, idx) ==
    IF idx < 8 THEN Err(MissingFilesInFEN(idx, fen)) ELSE Ok(cells)

RECURSIVE parse_rank_from(_, _, _, _)
\* The loop of Board::parse_rank from character i on (idx as a release build keeps it).
parse_rank_from(fen, i, cells, idx) ==
    IF i > Len(fen)
    THEN parse_rank_end(fen, cells, idx)
    ELSE LET c == fen[i]
         IN  IF IsDigit(c) /\ DigitValue(c) >= 1 /\ DigitValue(c) <= 8
             THEN parse_rank_from(fen, i + 1, cells, (idx + DigitValue(c)) % 256)
             ELSE LET piece == try_from_fen_char(c)
                  IN  IF piece = NoPiece THEN Err(InvalidFENPieceChar(c))
                      ELSE IF ~set_piece_in_bounds(4, idx) THEN Panic
                      ELSE parse_rank_from(fen, i + 1, set_piece(cells, idx, piece),
                                           (idx + 1) % 256)

parse_rank(fen) == parse_rank_from(fen, 1, init_empty(4), 0)

empty_board == init_empty(32)

copy_rank_from(repr, r, rank_buffer) ==
    [i \in 0..31 |-> IF i >= r * 4 /\ i < (r + 1) * 4 THEN rank_buffer[i - r * 4] ELSE repr[i]]

RECURSIVE Board_parse_ranks(_, _, _, _)
\* The loop of Board::parse_from_fen: r runs from 7 down to 0, k is the next field.
Board_parse_ranks(fields, k, r, init) ==
    IF r < 0 THEN Ok(init)
    ELSE IF k > Len(fields) THEN Err(MissingRank(r))
    ELSE LET parsed_rank == parse_rank(fields[k])
         IN  IF parsed_rank.tag # "Ok" THEN parsed_rank
             ELSE Board_parse_ranks(fields, k + 1, r - 1,
                                    copy_rank_from(init, r, parsed_rank.value))

Board_parse_from_fen(fen) == Board_parse_ranks(str_split(fen, "/"), 1, 7, empty_board)

\* Option::None of a CastleRights.
NoRight == -1

right_from_fen_char(c) ==
    CASE c = "K" -> WHITE_KING_SIDE
      [] c = "Q" -> WHITE_QUEEN_SIDE
      [] c = "k" -> BLACK_KING_SIDE
      [] c = "q" -> BLACK_QUEEN_SIDE
      [] OTHER -> NoRight

RECURSIVE rights_from(_, _, _)
rights_from(s, i, total) ==
    IF i > Len(s) THEN Ok(total)
    ELSE LET right == right_from_fen_char(s[i])
         IN  IF right = NoRight THEN Err(InvalidCastleRight(s[i]))
             ELSE rights_from(s, i + 1, BitOr8(total, right))

rights_from_fen_str(s) == IF s = <<"-">> THEN Ok(EMPTY) ELSE rights_from(s, 1, EMPTY)

Columns == <<"A", "B", "C", "D", "E", "F", "G", "H">>

LowerColumns == <<"a", "b", "c", "d", "e", "f", "g", "h">>

BoardColumn_char_lower(col) == LowerColumns[col]

BoardColumn_char(col) == Columns[col]

BoardColumn_try_from_char_wrong(c) ==
    IF \E i \in 1..8 : Columns[i] = c \/ LowerColumns[i] = c
    THEN CHOOSE i \in 1..8 : Columns[9 - i] = c \/ LowerColumns[9 - i] = c
    ELSE 0

\* A BoardColumn is its discriminant 1..8; NoPiece (0) stands for None here.
BoardColumn_try_from_char(c) ==
    IF \E i \in 1..8 : Columns[i] = c \/ LowerColumns[i] = c
    THEN CHOOSE i \in 1..8 : Columns[i] = c \/ LowerColumns[i] = c
    ELSE 0

BoardPosition(row, column) == [row |-> row, column |-> column]

from_index(index) == BoardPosition(rank(index), file(index))

to_index_wrong(pos) == (pos.row - 1) * 8 + (8 - pos.column)

to_index(pos) == (pos.row - 1) * 8 + (pos.column - 1)

\* impl FromStr for BoardPosition.
BoardPosition_from_str(s) ==
    IF Len(s) # 2 THEN Err("NotLength2")
    ELSE IF BoardColumn_try_from_char(s[1]) = 0 THEN Err("FirstNotValidColumn")
    ELSE IF ~(IsDigit(s[2]) /\ DigitValue(s[2]) >= 1 /\ DigitValue(s[2]) <= 8)
         THEN Err("SecondNotValidRow")
    ELSE Ok(BoardPosition(DigitValue(s[2]), BoardColumn_try_from_char(s[1])))

\* impl Display for BoardPosition.
BoardPosition_display(pos) == <<BoardColumn_char(pos.column), Digits[pos.row + 1]>>

EnPassantTarget_from_fen(s) ==
    IF s = <<"-">> THEN NoIndex
    ELSE LET r == BoardPosition_from_str(s)
         IN  IF r.tag = "Ok" THEN to_index(r.value) ELSE NoIndex

RECURSIVE parse_digits(_, _, _, _)
parse_digits(s, i, acc, max) ==
    IF i > Len(s) THEN Ok(acc)
    ELSE IF ~IsDigit(s[i]) THEN Err(ParseInt("InvalidDigit"))
    ELSE IF acc * 10 > max \/ acc * 10 + DigitValue(s[i]) > max
         THEN Err(ParseInt("PosOverflow"))
    ELSE parse_digits(s, i + 1, acc * 10 + DigitValue(s[i]), max)

\* str::parse for an unsigned integer type whose largest value is max.
parse_unsigned(s, max) ==
    IF s = <<>> THEN Err(ParseInt("Empty"))
    ELSE IF Len(s) = 1 /\ (s[1] = "+" \/ s[1] = "-") THEN Err(ParseInt("InvalidDigit"))
    ELSE IF s[1] = "+" THEN parse_digits(s, 2, 0, max)
    ELSE parse_digits(s, 1, 0, max)

U8Max == 255
U16Max == 65535

GameState_parse_from_fen(fen) ==
    LET fields == str_split(fen, " ")
    IN  IF Len(fields) < 6 THEN Err(MissingFields(Len(fields)))
        ELSE LET b == Board_parse_from_fen(fields[1])
                 cr == rights_from_fen_str(fields[3])
                 hm == parse_unsigned(fields[5], U8Max)
                 fm == parse_unsigned(fields[6], U16Max)
             IN  IF b.tag = "Panic" THEN Panic
                 ELSE IF b.tag = "Err" THEN Err(InvalidBoard(b.err))
                 ELSE IF fields[2] # <<"w">> /\ fields[2] # <<"b">>
                      THEN Err(InvalidNextMove(fields[2]))
                 ELSE IF cr.tag = "Err" THEN Err(cr.err)
                 ELSE IF hm.tag = "Err" THEN Err(hm.err)
                 ELSE IF fm.tag = "Err" THEN Err(fm.err)
                 ELSE Ok(GameState(b.value,
                                   IF fields[2] = <<"w">> THEN White ELSE Black,
                                   cr.value,
                                   EnPassantTarget_from_fen(fields[4]),
                                   hm.value, fm.value))

RECURSIVE to_decimal(_)
\* Display of an unsigned integer.
to_decimal(n) ==
    IF n < 10 THEN <<Digits[n + 1]>> ELSE to_decimal(n \div 10) \o <<Digits[(n % 10) + 1]>>

\* WholeBoardCellBuffer::get_rank: the four bytes of rank r (0..7).
get_rank(repr, r) == [i \in 0..3 |-> repr[r * 4 + i]]

RECURSIVE rank_to_fen(_, _, _)
\* The inner loop of Board::to_fen over the cells of one rank, from file i on.
rank_to_fen(slice, i, empty_files) ==
    IF i > 7
    THEN IF empty_files # 0 THEN to_decimal(empty_files) ELSE <<>>
    ELSE LET cell == get_piece(slice, i)
         IN  IF cell # NoPiece
             THEN (IF empty_files # 0 THEN to_decimal(empty_files) ELSE <<>>)
                  \o <<to_fen_char(cell)>> \o rank_to_fen(slice, i + 1, 0)
             ELSE rank_to_fen(slice, i + 1, empty_files + 1)

RECURSIVE Board_to_fen_from(_, _)
Board_to_fen_from(repr, r) ==
    rank_to_fen(get_rank(repr, r), 0, 0)
    \o (IF r # 0 THEN <<"/">> \o Board_to_fen_from(repr, r - 1) ELSE <<>>)

Board_to_fen(repr) == Board_to_fen_from(repr, 7)

rights_to_fen(cr) ==
    LET text == (IF has_rights(cr, WHITE_KING_SIDE) THEN <<"K">> ELSE <<>>)
                \o (IF has_rights(cr, WHITE_QUEEN_SIDE) THEN <<"Q">> ELSE <<>>)
                \o (IF has_rights(cr, BLACK_KING_SIDE) THEN <<"k">> ELSE <<>>)
                \o (IF has_rights(cr, BLACK_QUEEN_SIDE) THEN <<"q">> ELSE <<>>)
    IN  IF text = <<>> THEN <<"-">> ELSE text

GameState_to_fen(gs) ==
    Board_to_fen(gs.board)
    \o (IF gs.next_move = White THEN <<" ", "w", " ">> ELSE <<" ", "b", " ">>)
    \o rights_to_fen(gs.castling_rights)
    \o <<" ">>
    \o (IF gs.en_passant_target # NoIndex
        THEN BoardPosition_display(from_index(gs.en_passant_target))
        ELSE <<"-">>)
    \o <<" ">> \o to_decimal(gs.half_move_clock)
    \o <<" ">> \o to_decimal(gs.full_move_counter)

\* ------------------------------------------------------------ input texts
\* A position description is kept in its parts: the ranks of the board field
\* and the fields after it.  Its text joins the ranks with "/" and the
\* fields with " ".

RECURSIVE join(_, _)
\* The texts of parts, with sep between them.
join(parts, sep) ==
    IF Len(parts) = 1 THEN parts[1]
    ELSE parts[1] \o <<sep>> \o join(Tail(parts), sep)

Description(ranks, side, rights, ep, clock, counter) ==
    [ranks |-> ranks, rest |-> <<side, rights, ep, clock, counter>>]

BoardText(d) == join(d.ranks, "/")

Text(d) == join(<<BoardText(d)>> \o d.rest, " ")

R8 == <<"8">>

BlackKingE8 == <<"4", "k", "3">>

WhiteKingE1 == <<"4", "K", "3">>

StartingRanks ==
    << <<"r", "n", "b", "q", "k", "b", "n", "r">>, <<"p", "p", "p", "p", "p", "p", "p", "p">>,
       R8, R8, R8, R8,
       <<"P", "P", "P", "P", "P", "P", "P", "P">>, <<"R", "N", "B", "Q", "K", "B", "N", "R">> >>

\* "rnbqkbnr/pppppppp/8/8/8/8/PPPPPPPP/RNBQKBNR w KQkq - 0 1"
StartingFen ==
    Description(StartingRanks, <<"w">>, <<"K", "Q", "k", "q">>, <<"-">>, <<"0">>, <<"1">>)

\* "4k3/8/8/8/1b6/8/3P4/4K3 w - - 3 7": the pawn on d2 is pinned by the bishop on b4.
PinnedPawnFen ==
    Description(<<BlackKingE8, R8, R8, R8, <<"1", "b", "6">>, R8, <<"3", "P", "4">>, WhiteKingE1>>,
                <<"w">>, <<"-">>, <<"-">>, <<"3">>, <<"7">>)

\* "4k3/3p4/8/4P3/8/8/8/4K3 b - - 3 10": d7-d5 passes the pawn on e5.
BlackAdvanceFen ==
    Description(<<BlackKingE8, <<"3", "p", "4">>, R8, <<"4", "P", "3">>, R8, R8, R8, WhiteKingE1>>,
                <<"b">>, <<"-">>, <<"-">>, <<"3">>, <<"1", "0">>)

\* "4k3/8/8/3pP3/8/8/8/4K3 w - D6 0 5": the pawn on e5 may capture on d6 en passant.
EnPassantReadyFen ==
    Description(<<BlackKingE8, R8, R8, <<"3", "p", "P", "3">>, R8, R8, R8, WhiteKingE1>>,
                <<"w">>, <<"-">>, <<"D", "6">>, <<"0">>, <<"5">>)

\* "4k2r/8/8/8/8/8/1B6/R3K3 w Qk - 5 20": kings and rooks at home, rights Q and
\* k, and a bishop that can capture the rook on h8.
CastleRightsFen ==
    Description(<< <<"4", "k", "2", "r">>, R8, R8, R8, R8, R8, <<"1", "B", "6">>,
                   <<"R", "3", "K", "3">> >>,
                <<"w">>, <<"Q", "k">>, <<"-">>, <<"5">>, <<"2", "0">>)

\* "4k3/8/8/8/3p4/8/4P3/4K3 w - - 4 1": e2-e4 passes the pawn on d4.
WhiteAdvanceFen ==
    Description(<<BlackKingE8, R8, R8, R8, <<"3", "p", "4">>, R8, <<"4", "P", "3">>, WhiteKingE1>>,
                <<"w">>, <<"-">>, <<"-">>, <<"4">>, <<"1">>)

\* "4k3/7p/8/8/8/8/P7/4K3 w - - 0 1": pawns on the a- and h-files.
EdgePawnsFen ==
    Description(<<BlackKingE8, <<"7", "p">>, R8, R8, R8, R8, <<"P", "7">>, WhiteKingE1>>,
                <<"w">>, <<"-">>, <<"-">>, <<"0">>, <<"1">>)

\* "4k3/8/8/8/8/8/8/4K3 b - - 255 65535": both clocks at the top of their types.
FullClocksFen ==
    Description(<<BlackKingE8, R8, R8, R8, R8, R8, R8, WhiteKingE1>>,
                <<"b">>, <<"-">>, <<"-">>, <<"2", "5", "5">>, <<"6", "5", "5", "3", "5">>)

\* "4k3/8/8/6pP/8/8/8/4K3 w - G6 0 5": the pawn on h5 may capture on g6 en passant.
EdgeEnPassantFen ==
    Description(<<BlackKingE8, R8, R8, <<"6", "p", "P">>, R8, R8, R8, WhiteKingE1>>,
                <<"w">>, <<"-">>, <<"G", "6">>, <<"0">>, <<"5">>)

Positions ==
    {PinnedPawnFen, BlackAdvanceFen, EnPassantReadyFen, CastleRightsFen,
     WhiteAdvanceFen, EdgePawnsFen, FullClocksFen, EdgeEnPassantFen}

\* Moves a caller may hand to perform_move without asking legal_moves: the four
\* castles, a move from e3, a move of the king on e8, and a move from e5 to e7.
CallerMoves ==
    {Castle(4, 6, 7, 5), Castle(4, 2, 0, 3), Castle(60, 62, 63, 61), Castle(60, 58, 56, 59),
     Simple(20, 28), Simple(60, 52), Simple(36, 52)}

\* "4k3/8/8/8/8/8/8P/4K3": the second rank holds eight empty files and a pawn.
OverlongAfterRunRanks == <<BlackKingE8, R8, R8, R8, R8, R8, <<"8", "P">>, WhiteKingE1>>

\* "4k3/8/88/8/8/8/8/4K3": the sixth rank holds two runs of eight empty files.
OverlongRunsRanks == <<BlackKingE8, R8, <<"8", "8">>, R8, R8, R8, R8, WhiteKingE1>>

\* "4k3/PPPPPPPPP/8/8/8/8/8/4K3": the seventh rank holds nine pawns.
OverlongPiecesRanks ==
    <<BlackKingE8, <<"P", "P", "P", "P", "P", "P", "P", "P", "P">>,
      R8, R8, R8, R8, R8, WhiteKingE1>>

\* "pppppppp/8/8/8/8/8/8/7P/8": nine ranks.
NineRanks ==
    << <<"p", "p", "p", "p", "p", "p", "p", "p">>, R8, R8, R8, R8, R8, R8, <<"7", "P">>, R8>>

\* "7P": one rank used alone as the board field.
LoneRank == << <<"7", "P">> >>

\* Board fields handed to the parsers: well-formed ones, one with a split digit
\* run, and malformed ones (short ranks, an empty rank, an unknown letter before
\* or after a short rank, a short ninth rank, a missing rank, overlong ranks,
\* nine ranks, a lone rank).
BoardFields ==
    { StartingRanks,
      <<BlackKingE8, R8, R8, R8, R8, R8, R8, WhiteKingE1>>,
      << <<"r", "3", "k", "2", "r">>, <<"p", "p", "1", "b", "1", "p", "p", "p">>,
         <<"2", "n", "5">>, <<"3", "p", "P", "3">>, R8, <<"5", "N", "2">>,
         <<"P", "P", "P", "2", "P", "P", "P">>, <<"R", "3", "K", "2", "R">> >>,
      <<BlackKingE8, R8, R8, R8, R8, R8, R8, <<"4", "K", "1", "2">> >>,
      << <<"3", "k", "3">>, R8, R8, R8, R8, R8, R8, WhiteKingE1>>,
      <<BlackKingE8, R8, R8, R8, R8, R8, R8, <<"4", "K", "2">> >>,
      <<BlackKingE8, <<>>, R8, R8, R8, R8, R8, WhiteKingE1>>,
      <<BlackKingE8, <<"p", "p", "p">>, R8, R8, R8, R8, R8, WhiteKingE1>>,
      << <<"4", "x", "3">>, <<"7">>, R8, R8, R8, R8, R8, WhiteKingE1>>,
      << <<"7">>, <<"4", "x", "3">>, R8, R8, R8, R8, R8, WhiteKingE1>>,
      <<BlackKingE8, R8, R8, R8, R8, R8, R8, WhiteKingE1, <<"7">> >>,
      <<BlackKingE8, R8, R8, R8, R8, R8, WhiteKingE1>>,
      OverlongAfterRunRanks, OverlongRunsRanks, OverlongPiecesRanks, NineRanks, LoneRank }

SideFields == { <<"w">>, <<"b">> }

\* "q6k/8/8/3Q4/8/2N2b2/8/K6R": queens, a bishop, a knight and a rook with
\* own and opposing pieces on their lines, pieces in the corners.
OpenLinesRanks ==
    << <<"q", "6", "k">>, R8, R8, <<"3", "Q", "4">>, R8, <<"2", "N", "2", "b", "2">>, R8,
       <<"K", "6", "R">> >>

\* "r3k2r/pp1b1ppp/2n5/3pP3/8/5N2/PPP2PPP/R3K2R"
MiddleGameRanks ==
    << <<"r", "3", "k", "2", "r">>, <<"p", "p", "1", "b", "1", "p", "p", "p">>,
       <<"2", "n", "5">>, <<"3", "p", "P", "3">>, R8, <<"5", "N", "2">>,
       <<"P", "P", "P", "2", "P", "P", "P">>, <<"R", "3", "K", "2", "R">> >>

\* "3qk3/8/2n5/8/1b2Q3/8/3P1N2/R3K2R"
QueensRanks ==
    << <<"3", "q", "k", "3">>, R8, <<"2", "n", "5">>, R8, <<"1", "b", "2", "Q", "3">>, R8,
       <<"3", "P", "1", "N", "2">>, <<"R", "3", "K", "2", "R">> >>

\* "4k2P/p1p5/1P6/8/4p3/3P1n2/4PPP1/4K3": pawns with free and blocked
\* advances, captures on either side, on the a-file and on the last rank.
PawnsRanks ==
    << <<"4", "k", "2", "P">>, <<"p", "1", "p", "5">>, <<"1", "P", "6">>, R8,
       <<"4", "p", "3">>, <<"3", "P", "1", "n", "2">>, <<"4", "P", "P", "P", "1">>,
       WhiteKingE1 >>

\* The boards the move generators are called on.
GeneratorBoards ==
    { StartingRanks, MiddleGameRanks, OpenLinesRanks, QueensRanks, PawnsRanks,
      CastleRightsFen.ranks, EnPassantReadyFen.ranks }

\* Every castling-rights field: "-" and the selections of K, Q, k, q.
AllRightsFields ==
    { IF S = {} THEN <<"-">>
      ELSE SelectSeq(<<"K", "Q", "k", "q">>, LAMBDA c : \E i \in S : <<"K", "Q", "k", "q">>[i] = c) :
        S \in SUBSET (1..4) }

\* The positions the move generators are called on: every generator board with
\* either side to move, any castling rights and no en-passant target or d6.
GeneratorPositions ==
    { Description(b, s, r, e, <<"0">>, <<"1">>) :
        b \in GeneratorBoards, s \in SideFields, r \in AllRightsFields,
        e \in { <<"-">>, <<"D", "6">> } }

RightsFields == { <<"-">>, <<"K", "Q", "k", "q">>, <<"K", "q">>, <<"q", "K">> }

EnPassantFields == { <<"-">>, <<"E", "3">>, <<"e", "3">>, <<"C", "6">> }

ClockFields == { <<"0">>, <<"4", "9">>, <<"2", "5", "5">>, <<"2", "5", "6">>, <<"0", "7">> }

CounterFields == { <<"1">>, <<"6", "5", "5", "3", "5">>, <<"6", "5", "5", "3", "6">> }

\* Descriptions with faults in the fields after the board: a side token that
\* is not w or b, a castling character outside KQkq, a clock or a counter that
\* is no number, on a well-formed board and on boards with a fault of their own.
FaultyDescriptions ==
    { Description(b, s, r, <<"-">>, c, n) :
        b \in { <<BlackKingE8, R8, R8, R8, R8, R8, R8, WhiteKingE1>>,
                <<BlackKingE8, R8, R8, R8, R8, R8, WhiteKingE1>>,
                << <<"4", "x", "3">>, <<"7">>, R8, R8, R8, R8, R8, WhiteKingE1>>,
                OverlongAfterRunRanks, OverlongRunsRanks },
        s \in { <<"w">>, <<"x">>, <<"W">>, <<>> },
        r \in { <<"-">>, <<"K", "x", "q">>, <<"K", "-">> },
        c \in { <<"0">>, <<"x">>, <<>>, <<"1", "a">> },
        n \in { <<"1">>, <<"o", "n", "e">> } }

\* Descriptions with all six fields, and some that stop after the board, the
\* side or the clock.
Descriptions ==
    { Description(b, s, r, e, c, n) :
        b \in BoardFields, s \in SideFields, r \in RightsFields, e \in EnPassantFields,
        c \in ClockFields, n \in CounterFields }
    \cup { [ranks |-> b, rest |-> f] :
             b \in BoardFields,
             f \in { <<>>, << <<"w">> >>, << <<"w">>, <<"-">>, <<"-">>, <<"0">> >> } }
    \cup FaultyDescriptions

\* ------------------------------------------------------- the state machine

\* GameState::starting before its unwrap.
starting == GameState_parse_from_fen(Text(StartingFen))

Current ==
    GameState(board, next_move, castling_rights, en_passant_target,
              half_move_clock, full_move_counter)

NoMove == [kind |-> "None"]

NoOffer == [ok |-> FALSE, moves |-> <<>>]

NoOutput == [call |-> "none"]

BlankState == GameState(empty_board, White, EMPTY, NoIndex, 0, 1)

\* The variables hold gs and no move has been made.
Holds(gs) ==
    /\ board = gs.board
    /\ next_move = gs.next_move
    /\ castling_rights = gs.castling_rights
    /\ en_passant_target = gs.en_passant_target
    /\ half_move_clock = gs.half_move_clock
    /\ full_move_counter = gs.full_move_counter
    /\ ply = 0
    /\ last_move = NoMove
    /\ prev = gs
    /\ offered = NoOffer
    /\ black_moves = 0
    /\ left_home = {}

\* What a caller of GameState::parse_from_fen sees: the state itself is kept in
\* the variables.
Answer(r) ==
    [call |-> "GameState::parse_from_fen",
     result |-> IF r.tag = "Ok" THEN [tag |-> "Ok"] ELSE r]

\* The state after `parse_from_fen(text).unwrap()`: the parsed state, or an abort.
Unwrapped(d) ==
    /\ input = d
    /\ \E r \in {GameState_parse_from_fen(Text(d))} :
          /\ output = Answer(r)
          /\ IF r.tag = "Ok"
             THEN status = "ok" /\ Holds(r.value)
             ELSE status = "panic" /\ Holds(BlankState)

game_vars ==
    <<board, next_move, castling_rights, en_passant_target, half_move_clock,
      full_move_counter, ply, last_move, prev, offered, black_moves, left_home>>

Abort == status' = "panic" /\ UNCHANGED <<game_vars, input, output>>

\* The square of the piece a move moves (the king of a castle).
moved_square(m) ==
    CASE m.kind = "Simple" -> m.start
      [] m.kind = "EnPassant" -> m.pawn_doing_en_passant
      [] m.kind = "Castle" -> m.king_from

\* The files whose pawns the games about the home squares move.
HomeFiles == {1, 5, 8}

\* The squares a move takes a piece away from.
Vacated(m) ==
    CASE m.kind = "Simple" -> {m.start}
      [] m.kind = "EnPassant" -> {m.pawn_doing_en_passant}
      [] m.kind = "Castle" -> {m.king_from, m.rook_from}

\* The home squares of the kings and rooks, each with the piece that starts on it.
HomePieces ==
    (0 :> WhiteRook) @@ (4 :> WhiteKing) @@ (7 :> WhiteRook)
    @@ (56 :> BlackRook) @@ (60 :> BlackKing) @@ (63 :> BlackRook)

\* The home squares that m, made on board b, takes the king or a rook of the
\* square's color away from.
DepartedHome(b, m) ==
    {s \in Vacated(m) \cap DOMAIN HomePieces : get_piece_at(b, s) = HomePieces[s]}

\* perform_move(m) has ended with outcome o; offer is what legal_moves had returned.
Performed(m, o, offer) ==
    IF o.status = "panic" THEN Abort
    ELSE /\ board' = o.gs.board
         /\ next_move' = o.gs.next_move
         /\ castling_rights' = o.gs.castling_rights
         /\ en_passant_target' = o.gs.en_passant_target
         /\ half_move_clock' = o.gs.half_move_clock
         /\ full_move_counter' = o.gs.full_move_counter
         /\ status' = "ok"
         /\ ply' = ply + 1
         /\ last_move' = m
         /\ prev' = Current
         /\ offered' = offer
         /\ black_moves' = black_moves
                + (IF color(get_piece_at(board, moved_square(m))) = Black THEN 1 ELSE 0)
         /\ left_home' = left_home \cup DepartedHome(board, m)
         /\ UNCHANGED <<input, output>>

\* The caller collects legal_moves and performs one of them.
LegalStep ==
    /\ status = "ok"
    /\ ply < MaxPly
    /\ \E lm \in {legal_moves(Current)} :
           IF ~lm.ok THEN Abort
           ELSE \E k \in 1..Len(lm.moves) :
                    \E o \in perform_move(Current, lm.moves[k]) :
                        Performed(lm.moves[k], o, lm)

\* The caller performs a move of its own making.
PerformAny ==
    /\ status = "ok"
    /\ ply < MaxPly
    /\ \E m \in CallerMoves :
           \E o \in perform_move(Current, m) : Performed(m, o, NoOffer)

\* A game from the canonical starting position, by legal moves.
Init == Unwrapped(StartingFen)

Next == LegalStep

Spec == Init /\ [][Next]_vars

\* The caller collects legal_moves and performs one that moves a king, a rook
\* or a pawn of the a-, e- or h-file: the moves that free and use the home
\* squares of the kings and rooks.
HomeStep ==
    /\ status = "ok"
    /\ ply < MaxHomePly
    /\ \E lm \in {legal_moves(Current)} :
           IF ~lm.ok THEN Abort
           ELSE \E k \in 1..Len(lm.moves) :
                    /\ lm.moves[k].kind = "Simple"
                    /\ \E p \in {get_piece_at(board, lm.moves[k].start)} :
                           \/ kind(p) \in {King, Rook}
                           \/ kind(p) = Pawn /\ file(lm.moves[k].start) \in HomeFiles
                    /\ \E o \in perform_move(Current, lm.moves[k]) :
                           Performed(lm.moves[k], o, lm)

NextHome == HomeStep

\* Games from the starting position by such legal moves.
SpecHome == Init /\ [][NextHome]_vars

\* Games from parsed positions, by legal moves and by moves of the caller's making.
InitPos == \E d \in Positions : Unwrapped(d)

NextPos == LegalStep \/ PerformAny

SpecPos == InitPos /\ [][NextPos]_vars

\* Games from the canonical starting position, by legal moves and by moves of
\* the caller's making.
SpecStart == Init /\ [][NextPos]_vars

\* A description is parsed, as a whole or its board field alone, and a parsed
\* state is written out again.
InitFen ==
    /\ input \in Descriptions
    /\ output = NoOutput
    /\ status = "new"
    /\ Holds(BlankState)

ParseFen ==
    /\ status = "new"
    /\ \E r \in {GameState_parse_from_fen(Text(input))} :
          /\ output' = Answer(r)
          /\ IF r.tag = "Ok"
             THEN /\ status' = "ok"
                  /\ board' = r.value.board
                  /\ next_move' = r.value.next_move
                  /\ castling_rights' = r.value.castling_rights
                  /\ en_passant_target' = r.value.en_passant_target
                  /\ half_move_clock' = r.value.half_move_clock
                  /\ full_move_counter' = r.value.full_move_counter
                  /\ prev' = r.value
                  /\ UNCHANGED <<ply, last_move, offered, black_moves, left_home, input>>
             ELSE /\ status' = (IF r.tag = "Err" THEN "error" ELSE "panic")
                  /\ UNCHANGED <<game_vars, input>>

ParseBoard ==
    /\ status = "new"
    /\ output' = [call |-> "Board::parse_from_fen",
                  result |-> Board_parse_from_fen(BoardText(input))]
    /\ status' = "done"
    /\ UNCHANGED <<game_vars, input>>

ToFen ==
    /\ status = "ok"
    /\ output' = [call |-> "GameState::to_fen", result |-> GameState_to_fen(Current)]
    /\ status' = "done"
    /\ UNCHANGED <<game_vars, input>>

NextFen == ParseFen \/ ParseBoard \/ ToFen

SpecFen == InitFen /\ [][NextFen]_vars

\* The move generators called on a parsed position: the pseudo-legal moves of
\* the side to move, its legal moves, and the moves of one piece of either side.
InitGen == \E d \in GeneratorPositions : Unwrapped(d)

Generated(call, position, r) ==
    /\ output' = [call |-> call, position |-> position, result |-> r]
    /\ status' = (IF r.ok THEN "done" ELSE "panic")
    /\ UNCHANGED <<game_vars, input>>

AllPossibleMoves ==
    /\ status = "ok"
    /\ Generated("Board::all_possible_moves_for_turn", NoIndex,
                 all_possible_moves_for_turn(board, next_move, en_passant_target,
                                             castling_rights))

LegalMoves ==
    /\ status = "ok"
    /\ Generated("GameState::legal_moves", NoIndex, legal_moves(Current))

MovesOnBoard ==
    /\ status = "ok"
    /\ \E position \in 0..63 :
           /\ get_piece_at(board, position) # NoPiece
           /\ Generated("BoardPiece::moves_on_board", position,
                        moves_on_board(get_piece_at(board, position), position, board,
                                       en_passant_target, castling_rights))

NextGen == AllPossibleMoves \/ LegalMoves \/ MovesOnBoard

SpecGen == InitGen /\ [][NextGen]_vars

\* checked_add called on every index with deltas whose components are small
\* or at the ends of the signed 8-bit range.
DeltaComponents == (-MaxDelta..MaxDelta) \cup {-128, -127, 16, 127}

InitAdd ==
    /\ input \in [index : 0..63, delta_rank : DeltaComponents, delta_file : DeltaComponents]
    /\ output = NoOutput
    /\ status = "new"
    /\ Holds(BlankState)

CheckedAdd ==
    /\ status = "new"
    /\ \E o \in checked_add_outcomes(input.index,
                                     BoardIndexDelta_new(input.delta_rank, input.delta_file)) :
           /\ output' = [call |-> "BoardIndex::checked_add", result |-> o]
           /\ status' = (IF o.tag = "Panic" THEN "panic" ELSE "done")
    /\ UNCHANGED <<game_vars, input>>

NextAdd == CheckedAdd

SpecAdd == InitAdd /\ [][NextAdd]_vars

\* The packed storage: one set_piece call, with any index and any occupant,
\* on the empty board or on a parsed board; and sequences of set_piece calls
\* from the empty board on the squares of the first two bytes and the last one.
StoredBoards ==
    {empty_board}
    \cup { Board_parse_from_fen(join(b, "/")).value :
             b \in {StartingRanks, MiddleGameRanks, OpenLinesRanks} }

Occupants == BoardPieces \cup {NoPiece}

SequenceSquares == {0, 1, 2, 3, 62, 63}

InitStore ==
    /\ input = NoMove
    /\ output = NoOutput
    /\ status = "new"
    /\ \E b \in StoredBoards : Holds(GameState(b, White, EMPTY, NoIndex, 0, 1))

PieceSet(index, p, s) ==
    /\ board' = set_piece(board, index, p)
    /\ input' = [index |-> index, piece |-> p]
    /\ prev' = Current
    /\ ply' = ply + 1
    /\ status' = s
    /\ UNCHANGED <<next_move, castling_rights, en_passant_target, half_move_clock,
                   full_move_counter, last_move, offered, black_moves, left_home,
                   output>>

SetPiece ==
    /\ status = "new"
    /\ \E index \in 0..63, p \in Occupants : PieceSet(index, p, "done")

SetPieceInSequence ==
    /\ status = "sequence" \/ (status = "new" /\ board = empty_board)
    /\ ply < MaxSets
    /\ \E index \in SequenceSquares, p \in Occupants : PieceSet(index, p, "sequence")

NextStore == SetPiece \/ SetPieceInSequence

SpecStore == InitStore /\ [][NextStore]_vars

\* Square names: every text of up to MaxNameLen characters over a small
\* alphabet is parsed, and every position is formatted and parsed back.
NameCharacters == {"A", "H", "a", "h", "I", "i", "0", "1", "8", "9", "-"}

NameTexts == UNION { [1..n -> NameCharacters] : n \in 0..MaxNameLen }

InitName ==
    /\ input \in [text : NameTexts] \cup [row : 1..8, column : 1..8]
    /\ output = NoOutput
    /\ status = "new"
    /\ Holds(BlankState)

ParseName ==
    /\ status = "new"
    /\ DOMAIN input = {"text"}
    /\ output' = [call |-> "BoardPosition::from_str",
                  result |-> BoardPosition_from_str(input.text)]
    /\ status' = "done"
    /\ UNCHANGED <<game_vars, input>>

FormatName ==
    /\ status = "new"
    /\ DOMAIN input = {"row", "column"}
    /\ output' = [call |-> "BoardPosition::to_string",
                  text |-> BoardPosition_display(BoardPosition(input.row, input.column)),
                  result |-> BoardPosition_from_str(
                                 BoardPosition_display(BoardPosition(input.row, input.column)))]
    /\ status' = "done"
    /\ UNCHANGED <<game_vars, input>>

NextName == ParseName \/ FormatName

SpecName == InitName /\ [][NextName]_vars

\* board_after_move called by a caller on every generator board with every
\* Simple(start, end): the call takes &self, so the board it is applied to
\* stays in the variables.
InitApply ==
    \E b \in GeneratorBoards :
        Unwrapped(Description(b, <<"w">>, <<"-">>, <<"-">>, <<"0">>, <<"1">>))

\* The statuses a call answering r can end in: an unwrap failure aborts every
\* build, an overflow aborts a debug build and wraps in a release build.
board_after_move_outcomes(r) ==
    IF ~r.ok THEN {"panic"}
    ELSE {"done"} \cup (IF r.overflow THEN {"panic"} ELSE {})

ApplySimple ==
    /\ status = "ok"
    /\ \E start \in 0..63, end \in 0..63 :
           \E r \in {board_after_move(board, Simple(start, end))} :
               /\ output' = [call |-> "Board::board_after_move",
                             move |-> Simple(start, end), result |-> r]
               /\ status' \in board_after_move_outcomes(r)
               /\ UNCHANGED <<game_vars, input>>

NextApply == ApplySimple

SpecApply == InitApply /\ [][NextApply]_vars

\* The conversions between indices and positions, called on every index and on
\* every (row, column).
InitCoord ==
    /\ input \in [index : 0..63] \cup [row : 1..8, column : 1..8]
    /\ output = NoOutput
    /\ status = "new"
    /\ Holds(BlankState)

IndexToPosition ==
    /\ status = "new"
    /\ DOMAIN input = {"index"}
    /\ output' = [call |-> "from_index", position |-> from_index(input.index),
                  index |-> to_index(from_index(input.index))]
    /\ status' = "done"
    /\ UNCHANGED <<game_vars, input>>

PositionToIndex ==
    /\ status = "new"
    /\ DOMAIN input = {"row", "column"}
    /\ output' = [call |-> "to_index",
                  index |-> to_index(BoardPosition(input.row, input.column)),
                  position |-> from_index(to_index(BoardPosition(input.row, input.column)))]
    /\ status' = "done"
    /\ UNCHANGED <<game_vars, input>>

NextCoord == IndexToPosition \/ PositionToIndex

SpecCoord == InitCoord /\ [][NextCoord]_vars

\* --------------------------------------------- notions the claims are put in
\* These are written from the rules of the game and of the text format, not
\* from the engine's operators.

WhitePieces == {WhitePawn, WhiteRook, WhiteKnight, WhiteBishop, WhiteQueen, WhiteKing}

BlackPieces == {BlackPawn, BlackRook, BlackKnight, BlackBishop, BlackQueen, BlackKing}

Abs(x) == IF x < 0 THEN -x ELSE x

Sign(x) == IF x < 0 THEN -1 ELSE IF x > 0 THEN 1 ELSE 0

Row(s) == s \div 8

Col(s) == s % 8

\* The squares strictly between s and t, which share a line, are empty on b.
ClearBetween(b, s, t) ==
    LET step == 8 * Sign(Row(t) - Row(s)) + Sign(Col(t) - Col(s))
        n == IF Abs(Row(t) - Row(s)) > Abs(Col(t) - Col(s))
             THEN Abs(Row(t) - Row(s)) ELSE Abs(Col(t) - Col(s))
    IN  \A i \in 1..(n - 1) : get_piece_at(b, s + i * step) = NoPiece

\* The piece on s has a capturing move onto t, a square held by a piece of the
\* other side.
Attacks(b, s, t) ==
    LET p == get_piece_at(b, s)
        dr == Abs(Row(t) - Row(s))
        dc == Abs(Col(t) - Col(s))
        straight == (dr = 0 \/ dc = 0) /\ s # t /\ ClearBetween(b, s, t)
        diagonal == dr = dc /\ s # t /\ ClearBetween(b, s, t)
    IN  CASE p = WhitePawn -> Row(t) = Row(s) + 1 /\ dc = 1
          [] p = BlackPawn -> Row(t) = Row(s) - 1 /\ dc = 1
          [] p \in {WhiteKnight, BlackKnight} -> (dr = 1 /\ dc = 2) \/ (dr = 2 /\ dc = 1)
          [] p \in {WhiteKing, BlackKing} -> dr <= 1 /\ dc <= 1 /\ s # t
          [] p \in {WhiteRook, BlackRook} -> straight
          [] p \in {WhiteBishop, BlackBishop} -> diagonal
          [] p \in {WhiteQueen, BlackQueen} -> straight \/ diagonal

\* No piece of c's opponent has a move onto a square holding c's king.
KingSafe(b, c) ==
    LET king_piece == IF c = White THEN WhiteKing ELSE BlackKing
        theirs == IF c = White THEN BlackPieces ELSE WhitePieces
    IN  \A t \in 0..63 :
            get_piece_at(b, t) = king_piece =>
                \A s \in 0..63 : get_piece_at(b, s) \in theirs => ~Attacks(b, s, t)

InSeq(x, seq) == \E k \in 1..Len(seq) : seq[k] = x

\* The piece the last move moved, on the board it was made on.
MovedPiece == get_piece_at(prev.board, moved_square(last_move))

\* The last move was a pawn's advance of two squares.
TwoSquarePawnAdvance ==
    /\ last_move.kind = "Simple"
    /\ \/ MovedPiece = WhitePawn /\ last_move.end = last_move.start + 16
       \/ MovedPiece = BlackPawn /\ last_move.end = last_move.start - 16

PassedOver == (last_move.start + last_move.end) \div 2

\* The last move moved a pawn.
MovedPawn ==
    CASE last_move.kind = "Simple" -> MovedPiece \in {WhitePawn, BlackPawn}
      [] last_move.kind = "EnPassant" -> TRUE
      [] last_move.kind = "Castle" ->
            \/ MovedPiece \in {WhitePawn, BlackPawn}
            \/ get_piece_at(prev.board, last_move.rook_from) \in {WhitePawn, BlackPawn}

\* The last move took a piece off the board.
Captured ==
    CASE last_move.kind = "Simple" -> get_piece_at(prev.board, last_move.end) # NoPiece
      [] last_move.kind = "EnPassant" -> TRUE
      [] last_move.kind = "Castle" ->
            \/ get_piece_at(prev.board, last_move.king_to) # NoPiece
            \/ last_move.rook_to = last_move.king_to
            \/ /\ last_move.rook_to # last_move.king_from
               /\ get_piece_at(prev.board, last_move.rook_to) # NoPiece

\* The rights a castling-rights value holds, as the set of its bits.
RightsHeld(cr) == {i \in 0..7 : (cr \div (2 ^ i)) % 2 = 1}

\* The rights the move of piece p from square s revokes, as the revocation
\* rule words it (bit 0 white king side, 1 white queen side, 2 black king
\* side, 3 black queen side).
RevokedByRule(p, s) ==
    CASE p = WhiteKing -> {0, 1}
      [] p = BlackKing -> {2, 3}
      [] p = WhiteRook /\ s = 0 -> {1}
      [] p = WhiteRook /\ s = 7 -> {0}
      [] p = BlackRook /\ s = 56 -> {3}
      [] p = BlackRook /\ s = 63 -> {2}
      [] OTHER -> {}

\* The rights the last move revokes by the rule; a castle is a king move and
\* a move of the piece found on rook_from once the king has moved.
RevokedByLastMove ==
    CASE last_move.kind = "Simple" -> RevokedByRule(MovedPiece, last_move.start)
      [] last_move.kind = "EnPassant" -> {}
      [] last_move.kind = "Castle" ->
            RevokedByRule(MovedPiece, last_move.king_from)
            \cup RevokedByRule(IF last_move.rook_from = last_move.king_to THEN MovedPiece
                               ELSE get_piece_at(prev.board, last_move.rook_from),
                               last_move.rook_from)

\* The squares the non-pawn piece on s may move to by the geometric rule: on
\* one of its lines with nothing in between, or at one of its fixed offsets,
\* and empty or held by a piece of the other color.
Destinations(b, s) ==
    { t \in 0..63 :
        /\ Attacks(b, s, t)
        /\ \/ get_piece_at(b, t) = NoPiece
           \/ color(get_piece_at(b, t)) # color(get_piece_at(b, s)) }

\* The direction a pawn of color c advances in: one rank up or down.
Forward(c) == IF c = White THEN 1 ELSE -1

\* The squares the pawn on s may move to by a Simple move, by the pawn rule:
\* one square forward if empty, two from the starting rank if both are empty,
\* a forward-diagonal square if it holds an opposing piece.
PawnDestinations(b, s) ==
    LET c == color(get_piece_at(b, s))
        d == Forward(c)
        one == s + 8 * d
        two == s + 16 * d
        Empty(t) == t \in 0..63 /\ get_piece_at(b, t) = NoPiece
    IN  (IF Empty(one) THEN {one} ELSE {})
        \cup (IF Row(s) = (IF c = White THEN 1 ELSE 6) /\ Empty(one) /\ Empty(two)
              THEN {two} ELSE {})
        \cup { t \in 0..63 :
                 /\ Row(t) = Row(s) + d
                 /\ Abs(Col(t) - Col(s)) = 1
                 /\ get_piece_at(b, t) # NoPiece
                 /\ color(get_piece_at(b, t)) # c }

\* The pawns of the side to move that have the en-passant target on a
\* forward-diagonal square.
EnPassantCapturers ==
    { s \in 0..63 :
        /\ en_passant_target # NoIndex
        /\ get_piece_at(board, s) = of_color(Pawn, next_move)
        /\ Row(en_passant_target) = Row(s) + Forward(next_move)
        /\ Abs(Col(en_passant_target) - Col(s)) = 1 }

\* The square on the file of t and the rank of s.
BesideOnFile(s, t) == Row(s) * 8 + Col(t)

\* Text notions.

PieceLetters == {"K", "Q", "R", "B", "N", "P", "k", "q", "r", "b", "n", "p"}

RunDigits == <<"1", "2", "3", "4", "5", "6", "7", "8">>

IsRunDigit(c) == \E n \in 1..8 : RunDigits[n] = c

DecimalDigits == <<"0", "1", "2", "3", "4", "5", "6", "7", "8", "9">>

IsDecimalDigit(c) == \E n \in 1..10 : DecimalDigits[n] = c

RECURSIVE FilesIn(_)
\* The files a rank text of piece letters and digits 1-8 describes.
FilesIn(r) ==
    IF r = <<>> THEN 0
    ELSE (IF IsRunDigit(Head(r)) THEN CHOOSE n \in 1..8 : RunDigits[n] = Head(r) ELSE 1)
         + FilesIn(Tail(r))

\* r is made of piece letters and digits 1-8 only.
RankLetters(r) == \A i \in 1..Len(r) : r[i] \in PieceLetters \/ IsRunDigit(r[i])

FullRank(r) == RankLetters(r) /\ FilesIn(r) = 8

ShortRank(r) == RankLetters(r) /\ FilesIn(r) < 8

\* A full rank whose digit runs are maximal: no digit follows a digit.
CanonicalRank(r) ==
    /\ FullRank(r)
    /\ \A i \in 1..(Len(r) - 1) : ~(IsRunDigit(r[i]) /\ IsRunDigit(r[i + 1]))

\* "-" or a non-empty selection of K, Q, k, q in that order.
CanonicalRights(t) ==
    \/ t = <<"-">>
    \/ /\ t # <<>>
       /\ \E S \in SUBSET (1..4) :
              LET Kept(c) == \E i \in S : <<"K", "Q", "k", "q">>[i] = c
              IN  t = SelectSeq(<<"K", "Q", "k", "q">>, Kept)

UpperColumnLetters == {"A", "B", "C", "D", "E", "F", "G", "H"}

LowerColumnLetters == {"a", "b", "c", "d", "e", "f", "g", "h"}

\* A column letter out of `letters` followed by a row digit.
SquareName(t, letters) == Len(t) = 2 /\ t[1] \in letters /\ IsRunDigit(t[2])

\* A decimal numeral without sign or leading zero.
Decimal(t) ==
    /\ t # <<>>
    /\ \A i \in 1..Len(t) : IsDecimalDigit(t[i])
    /\ Len(t) > 1 => t[1] # "0"

RECURSIVE DecimalValue(_)
DecimalValue(t) ==
    IF t = <<>> THEN 0
    ELSE 10 * DecimalValue(SubSeq(t, 1, Len(t) - 1))
         + (CHOOSE n \in 0..9 : DecimalDigits[n + 1] = t[Len(t)])

\* The canonical form as the round-trip property words it: any square name,
\* any decimal integers.
CanonicalAsWorded(d) ==
    /\ Len(d.ranks) = 8
    /\ \A k \in 1..8 : CanonicalRank(d.ranks[k])
    /\ Len(d.rest) = 5
    /\ d.rest[1] \in { <<"w">>, <<"b">> }
    /\ CanonicalRights(d.rest[2])
    /\ d.rest[3] = <<"-">>
       \/ SquareName(d.rest[3], UpperColumnLetters \cup LowerColumnLetters)
    /\ Decimal(d.rest[4])
    /\ Decimal(d.rest[5])

\* The canonical form with an upper-case column letter in the square name, a
\* clock of at most 255 and a counter of at most 65535.
Canonical(d) ==
    /\ CanonicalAsWorded(d)
    /\ d.rest[3] = <<"-">> \/ SquareName(d.rest[3], UpperColumnLetters)
    /\ DecimalValue(d.rest[4]) <= 255
    /\ DecimalValue(d.rest[5]) <= 65535

\* The k-th rank of d is short, and is the first rank the parser finds fault
\* with: it is one of the eight ranks read, and the ranks before it are full.
FirstFaultIsShortRank(d, k) ==
    /\ k <= Len(d.ranks)
    /\ ShortRank(d.ranks[k])
    /\ \A j \in 1..(k - 1) : FullRank(d.ranks[j])

\* r is made of piece letters and digits 1-8 that sum to more than 8 files.
OverlongRank(r) == RankLetters(r) /\ FilesIn(r) > 8

\* The k-th rank of d is overlong, and is one of the eight ranks read, the
\* ranks before it full.
FirstFaultIsOverlongRank(d, k) ==
    /\ k <= Len(d.ranks)
    /\ OverlongRank(d.ranks[k])
    /\ \A j \in 1..(k - 1) : FullRank(d.ranks[j])

\* The characters of the ranks of d that the parser reads (the first eight
\* ranks) which are neither piece letters nor digits 1-8.
UnknownLetters(d) ==
    UNION { {d.ranks[k][i] : i \in 1..Len(d.ranks[k])} :
              k \in 1..(IF Len(d.ranks) < 8 THEN Len(d.ranks) ELSE 8) }
    \ (PieceLetters \cup {RunDigits[n] : n \in 1..8})

\* The error values of the faults of a description, one set per kind of fault:
\* too few fields, too few ranks, a short rank, an unknown piece letter, a
\* side token other than w or b, a castling character outside KQkq, a clock or
\* counter that is not a number.
FaultErrors(d) ==
    (IF Len(d.rest) < 5 THEN {MissingFields(Len(d.rest) + 1)} ELSE {})
    \cup (IF Len(d.ranks) < 8 THEN {InvalidBoard(MissingRank(7 - Len(d.ranks)))} ELSE {})
    \cup { InvalidBoard(MissingFilesInFEN(FilesIn(d.ranks[k]), d.ranks[k])) :
             k \in {j \in 1..8 : j <= Len(d.ranks) /\ ShortRank(d.ranks[j])} }
    \cup { InvalidBoard(InvalidFENPieceChar(c)) : c \in UnknownLetters(d) }
    \cup (IF Len(d.rest) >= 1 /\ d.rest[1] \notin { <<"w">>, <<"b">> }
          THEN {InvalidNextMove(d.rest[1])} ELSE {})
    \cup (IF Len(d.rest) >= 2 /\ d.rest[2] # <<"-">>
          THEN { InvalidCastleRight(d.rest[2][i]) :
                   i \in {j \in 1..Len(d.rest[2]) : d.rest[2][j] \notin {"K", "Q", "k", "q"}} }
          ELSE {})
    \cup (IF \E f \in 4..5 :
                /\ f <= Len(d.rest)
                /\ d.rest[f] = <<>> \/ \E i \in 1..Len(d.rest[f]) : ~IsDecimalDigit(d.rest[f][i])
          THEN {ParseInt("Empty"), ParseInt("InvalidDigit")} ELSE {})

\* d is not a well-formed description: it has one of the faults above, or its
\* board field has not 8 ranks of exactly 8 files each.
Malformed(d) ==
    \/ FaultErrors(d) # {}
    \/ Len(d.ranks) # 8
    \/ \E k \in 1..Len(d.ranks) : ~FullRank(d.ranks[k])

\* The missing-files error for the k-th rank of d.
MissingFilesOf(d, k) == MissingFilesInFEN(FilesIn(d.ranks[k]), d.ranks[k])

\* ------------------------------------------------------------------ claims

\* C1: in a game played from the canonical starting position by moves taken
\* from legal_moves, neither enumerating the legal moves nor performing one of
\* them aborts, also when an en-passant target is present.
C1_NoAbort == status # "panic"

\* C2: a pseudo-legal move of the side to move is in the list legal_moves
\* returns exactly when, on the board the move produces, no piece of the
\* opponent has a move onto the square of the mover's king; the list holds
\* nothing but pseudo-legal moves.  (Stated of the calls that return.)
C2_LegalityFilter ==
    (ply > 0 /\ offered.ok) =>
        LET possible == all_possible_moves_for_turn(prev.board, prev.next_move,
                                                    prev.en_passant_target,
                                                    prev.castling_rights)
        IN  /\ possible.ok
            /\ \A k \in 1..Len(possible.moves) :
                   InSeq(possible.moves[k], offered.moves)
                   <=> KingSafe(board_after_move(prev.board, possible.moves[k]).board,
                                prev.next_move)
            /\ \A k \in 1..Len(offered.moves) : InSeq(offered.moves[k], possible.moves)

\* C2's case: the pawn on d2, pinned by the bishop on b4, has the pseudo-legal
\* advance d2-d3, and the list the caller was given leaves it out.
C2_PinnedPawnLeftOut ==
    /\ ply = 1
    /\ input = PinnedPawnFen
    /\ offered.ok
    /\ InSeq(Simple(11, 19),
             all_possible_moves_for_turn(prev.board, prev.next_move,
                                         prev.en_passant_target,
                                         prev.castling_rights).moves)
    /\ ~InSeq(Simple(11, 19), offered.moves)
    /\ Len(offered.moves) > 0

\* C3: GameState::starting() parses, and legal_moves on it returns exactly 20
\* moves, all of white pieces: 16 pawn advances and 4 knight moves.
C3_StartingTwentyMoves ==
    /\ ply = 0 => (status = "ok" /\ output.result.tag = "Ok")
    /\ ply = 1 =>
          /\ offered.ok
          /\ Len(offered.moves) = 20
          /\ \A k \in 1..Len(offered.moves) :
                 /\ offered.moves[k].kind = "Simple"
                 /\ get_piece_at(prev.board, offered.moves[k].start) \in WhitePieces
          /\ Cardinality({k \in 1..Len(offered.moves) :
                 /\ get_piece_at(prev.board, offered.moves[k].start) = WhitePawn
                 /\ offered.moves[k].end - offered.moves[k].start \in {8, 16}}) = 16
          /\ Cardinality({k \in 1..Len(offered.moves) :
                 get_piece_at(prev.board, offered.moves[k].start) = WhiteKnight}) = 4

\* C3's case: the first move of a game, a knight's, chosen from the 20 offered.
C3_FirstMoveChosen ==
    /\ ply = 1
    /\ Len(offered.moves) = 20
    /\ last_move = Simple(6, 21)
    /\ get_piece_at(board, 21) = WhiteKnight

\* C4: after a pawn's advance of two squares the en-passant target is the
\* square the pawn passed over; after any other move there is no target.
C4_EnPassantLifecycle ==
    ply > 0 =>
        en_passant_target = (IF TwoSquarePawnAdvance THEN PassedOver ELSE NoIndex)

\* C4's case: e2-e4 set the target e3, and the king move that followed cleared it.
C4_TargetSetThenCleared ==
    /\ ply = 2
    /\ prev.en_passant_target = 20
    /\ get_piece_at(prev.board, 28) = WhitePawn
    /\ MovedPiece = BlackKing
    /\ en_passant_target = NoIndex

\* C5: whatever Move perform_move is given, the castling rights after it are a
\* subset of the rights before it.
C5_RightsOnlyShrink ==
    ply > 0 => RightsHeld(castling_rights) \subseteq RightsHeld(prev.castling_rights)

\* C5's case: a Castle move was performed and took rights away.
C5_CastleRevoked ==
    /\ ply > 0
    /\ last_move.kind = "Castle"
    /\ RightsHeld(castling_rights) # RightsHeld(prev.castling_rights)
    /\ RightsHeld(castling_rights) # {}

\* C6: a move that moves a pawn or captures a piece sets the half-move clock to
\* 0; any other move makes the clock exactly one greater than before.
C6_HalfMoveClock ==
    ply > 0 =>
        half_move_clock = (IF MovedPawn \/ Captured THEN 0 ELSE prev.half_move_clock + 1)

\* C7: over the moves applied from the starting position the full-move counter
\* grows by one with each move of a black piece and stays with each move of a
\* white piece, so after n black moves it is 1 + n.
C7_FullMoveCounter ==
    /\ full_move_counter = 1 + black_moves
    /\ ply > 0 =>
          full_move_counter
              = prev.full_move_counter + (IF MovedPiece \in BlackPieces THEN 1 ELSE 0)

\* C7's case: White has moved, then Black, and the counter reads 2.
C7_AfterBlackReply ==
    /\ input = StartingFen
    /\ ply = 2
    /\ black_moves = 1
    /\ MovedPiece \in BlackPieces
    /\ prev.full_move_counter = 1
    /\ full_move_counter = 2

\* C8: for a description in canonical form (8 full ranks with maximal digit
\* runs, side w or b, rights in the order KQkq or "-", en-passant field "-" or
\* a square name with an upper-case column letter, a clock of at most 255 and
\* a counter of at most 65535 written without sign or leading zero),
\* parse_from_fen succeeds and to_fen of the parsed state is the text itself.
C8_RoundTrip ==
    Canonical(input) =>
        /\ status \in {"new", "ok", "done"}
        /\ (status = "done" /\ output.call = "GameState::to_fen")
               => output.result = Text(input)

\* C8 as worded: the same for every square name and every decimal integer.
C8_RoundTripAsWorded ==
    CanonicalAsWorded(input) =>
        /\ status \in {"new", "ok", "done"}
        /\ (status = "done" /\ output.call = "GameState::to_fen")
               => output.result = Text(input)

\* C8's case: a canonical description with rights, an en-passant square and
\* both numbers at their largest has been parsed and written out again.
C8_WrittenOutAgain ==
    /\ status = "done"
    /\ output.call = "GameState::to_fen"
    /\ Canonical(input)
    /\ input.rest[2] = <<"K", "q">>
    /\ input.rest[3] = <<"E", "3">>
    /\ input.rest[4] = <<"2", "5", "5">>
    /\ input.rest[5] = <<"6", "5", "5", "3", "5">>
    /\ en_passant_target = 20
    /\ half_move_clock = 255

\* C9: from_index(i).to_index() is i for every index i of 0..63;
\* from_index(p.to_index()) is p for every row 1..8 and column A..H, and the
\* index of (row, column) is (row - 1) * 8 + (column - 1).
C9_IndexPositionBijection ==
    status = "done" =>
        /\ output.call = "from_index" => output.index = input.index
        /\ output.call = "to_index" =>
              /\ output.index = (input.row - 1) * 8 + (input.column - 1)
              /\ output.position = [row |-> input.row, column |-> input.column]

\* C9's case: (8, H) has been converted to the index 63 and back.
C9_LastSquareConverted ==
    /\ status = "done"
    /\ output.call = "to_index"
    /\ input = [row |-> 8, column |-> 8]
    /\ output.index = 63

\* C10: when the first rank the parser finds fault with is a short one (piece
\* letters and digits 1-8 summing to fewer than 8 files, among the eight ranks
\* read, the ranks before it full), Board::parse_from_fen returns
\* MissingFilesInFEN with the files found and the rank text;
\* GameState::parse_from_fen produces no state, and given all six fields it
\* returns that error wrapped as InvalidBoard.
C10_MissingFiles ==
    \A k \in 1..8 :
        FirstFaultIsShortRank(input, k) =>
            /\ status \in {"new", "error", "done"}
            /\ output.call = "Board::parse_from_fen"
                   => output.result = Err(MissingFilesOf(input, k))
            /\ output.call = "GameState::parse_from_fen" =>
                   /\ status = "error"
                   /\ Len(input.rest) = 5
                          => output.result = Err(InvalidBoard(MissingFilesOf(input, k)))

\* C10 as worded: whenever one of the eight ranks of the board field is short,
\* the parse of the board field, and the parse of a description of six fields,
\* return the missing-files error of a short rank.
C10_MissingFilesAsWorded ==
    LET Short == {k \in 1..8 : k <= Len(input.ranks) /\ ShortRank(input.ranks[k])}
    IN  Short # {} =>
            /\ output.call = "Board::parse_from_fen" =>
                   \E k \in Short : output.result = Err(MissingFilesOf(input, k))
            /\ (output.call = "GameState::parse_from_fen" /\ Len(input.rest) = 5) =>
                   \E k \in Short : output.result = Err(InvalidBoard(MissingFilesOf(input, k)))

\* C10's case: the rank "ppp" has been refused with 3 files found.
C10_ShortRankRefused ==
    /\ status = "error"
    /\ output.call = "GameState::parse_from_fen"
    /\ output.result = Err(InvalidBoard(MissingFilesInFEN(3, <<"p", "p", "p">>)))

\* C11: parsing a board field one of whose ranks sums to more than 8 files
\* ("8P", "88", "PPPPPPPPP") returns an error value: the parse never aborts
\* and never yields a board or a state.
C11_OverlongRankRefused ==
    \A k \in 1..8 :
        FirstFaultIsOverlongRank(input, k) =>
            /\ status \in {"new", "error", "done"}
            /\ output.call \in {"Board::parse_from_fen", "GameState::parse_from_fen"}
                   => output.result.tag = "Err"

\* C12: parsing the board field "pppppppp/8/8/8/8/8/8/7P/8" and parsing the
\* board field "7P" each return the missing-files error: no abort, no board.
C12_MissingFilesOfExamples ==
    input.ranks \in {NineRanks, LoneRank} =>
        /\ status \in {"new", "error", "done"}
        /\ output.call = "Board::parse_from_fen" =>
               /\ output.result.tag = "Err"
               /\ output.result.err.error = "MissingFilesInFEN"
        /\ (output.call = "GameState::parse_from_fen" /\ Len(input.rest) = 5) =>
               /\ output.result.tag = "Err"
               /\ output.result.err.error = "InvalidBoard"
               /\ output.result.err.inner.error = "MissingFilesInFEN"

\* C13: whatever the board, the side to move, the en-passant target and the
\* castling rights, all_possible_moves_for_turn, legal_moves and moves_on_board
\* return no Castle move: every generated move is a Simple or an EnPassant move.
C13_NoCastleGenerated ==
    output.call \in {"Board::all_possible_moves_for_turn", "GameState::legal_moves",
                     "BoardPiece::moves_on_board"} =>
        \A i \in 1..Len(output.result.moves) :
            output.result.moves[i].kind \in {"Simple", "EnPassant"}

\* C13's case: legal_moves has been drained for White holding the queen-side
\* right, king on e1, rook on a1 and nothing between them.
C13_CastleNotOffered ==
    /\ status = "done"
    /\ output.call = "GameState::legal_moves"
    /\ Len(output.result.moves) > 0
    /\ next_move = White
    /\ has_rights(castling_rights, WHITE_QUEEN_SIDE)
    /\ get_piece_at(board, 4) = WhiteKing
    /\ get_piece_at(board, 0) = WhiteRook
    /\ \A s \in 1..3 : get_piece_at(board, s) = NoPiece

\* C14: for every index and every delta of signed 8-bit components,
\* checked_add returns None when rank + delta_rank or file + delta_file leaves
\* 1..8, and otherwise the index of that rank and file; it never returns an
\* index outside 0..63 and never wraps around a board edge.  (Stated of the
\* calls that return.)
C14_CheckedAdd ==
    (output.call = "BoardIndex::checked_add" /\ output.result.tag = "Ok") =>
        LET r == rank(input.index) + input.delta_rank
            f == file(input.index) + input.delta_file
        IN  output.result.value =
                (IF r \in 1..8 /\ f \in 1..8 THEN (r - 1) * 8 + (f - 1) ELSE NoIndex)

\* C15: a performed move revokes exactly the rights the rule names: a king
\* move both rights of the king's color, a rook move from a1, h1, a8 or h8 the
\* right of that corner, every other move (a capture of a rook on its home
\* square too) none.
C15_RevocationRule ==
    ply > 0 =>
        RightsHeld(castling_rights) = RightsHeld(prev.castling_rights) \ RevokedByLastMove

\* C15's case: the rook has left a1 and only the white queen-side right, which
\* was held, has gone.
C15_RookLeftHome ==
    /\ ply > 0
    /\ last_move.kind = "Simple"
    /\ last_move.start = 0
    /\ MovedPiece = WhiteRook
    /\ has_rights(prev.castling_rights, WHITE_QUEEN_SIDE)
    /\ RightsHeld(castling_rights) = RightsHeld(prev.castling_rights) \ {1}
    /\ castling_rights # EMPTY

\* C16: in a game played from the starting position by moves taken from
\* legal_moves, every move legal_moves offers moves a piece of the side to
\* move, a performed move leaves the other color to move, and the side to
\* move alternates White, Black, White, ...
C16_TurnAlternation ==
    /\ next_move = (IF ply % 2 = 0 THEN White ELSE Black)
    /\ ply > 0 =>
           /\ color(MovedPiece) = prev.next_move
           /\ next_move = (IF prev.next_move = White THEN Black ELSE White)
           /\ \A i \in 1..Len(offered.moves) :
                  /\ get_piece_at(prev.board, moved_square(offered.moves[i])) # NoPiece
                  /\ color(get_piece_at(prev.board, moved_square(offered.moves[i])))
                         = prev.next_move

\* C16's case: White and then Black have moved, and White is to move again.
C16_WhiteToMoveAgain ==
    /\ status = "ok"
    /\ ply = 2
    /\ prev.next_move = Black
    /\ color(MovedPiece) = Black
    /\ Len(offered.moves) > 0
    /\ next_move = White

\* C17: after set_piece(i, p), get_piece(i) returns p and get_piece(j) returns
\* what it returned before for every other index j, the square sharing i's
\* byte included; this holds after any sequence of set_piece calls.
C17_GetAfterSet ==
    ply > 0 =>
        /\ get_piece(board, input.index) = input.piece
        /\ \A j \in 0..63 :
               j # input.index => get_piece(board, j) = get_piece(prev.board, j)

\* C17's case: after an earlier call, a piece has been set on a1 while b1, in
\* the same byte, holds a piece.
C17_SameByteKept ==
    /\ ply = 2
    /\ input.index = 0
    /\ input.piece = BlackQueen
    /\ get_piece(prev.board, 1) = WhiteKing
    /\ get_piece(board, 1) = WhiteKing

\* C18: formatting a position of column A..H and row 1..8 gives the column
\* letter followed by the row digit, and parsing that text gives the position
\* back; a text that is not 2 characters long is refused with NotLength2, else
\* one whose first character is no column letter (of either case) with
\* FirstNotValidColumn, else one whose second character is no digit 1..8 with
\* SecondNotValidRow; any other text is parsed to the square it names.
C18_SquareNameRoundTrip ==
    /\ output.call = "BoardPosition::to_string" =>
           /\ output.text = <<Columns[input.column], RunDigits[input.row]>>
           /\ output.result = Ok(BoardPosition(input.row, input.column))
    /\ output.call = "BoardPosition::from_str" =>
           LET t == input.text
           IN  output.result =
                   (IF Len(t) # 2 THEN Err("NotLength2")
                    ELSE IF t[1] \notin UpperColumnLetters \cup LowerColumnLetters
                         THEN Err("FirstNotValidColumn")
                    ELSE IF ~IsRunDigit(t[2]) THEN Err("SecondNotValidRow")
                    ELSE Ok(BoardPosition(CHOOSE n \in 1..8 : RunDigits[n] = t[2],
                                          CHOOSE n \in 1..8 :
                                              Columns[n] = t[1] \/ LowerColumns[n] = t[1])))

\* C18's case: h8 has been formatted as "H8" and parsed back.
C18_CornerNameParsedBack ==
    /\ output.call = "BoardPosition::to_string"
    /\ input.row = 8
    /\ input.column = 8
    /\ output.text = <<"H", "8">>
    /\ output.result.tag = "Ok"

\* C19: GameState::parse_from_fen answers a malformed description with the
\* error value of a fault it has and produces no state: MissingFields with the
\* number of fields present, MissingRank, InvalidFENPieceChar with the
\* character, InvalidNextMove, InvalidCastleRight with the character, ParseInt.
C19_ErrorMapping ==
    (output.call = "GameState::parse_from_fen" /\ Malformed(input))
    => /\ status = "error"
       /\ output.result.tag = "Err"
       /\ output.result.err \in FaultErrors(input)

\* C20: for a rook, bishop, queen, knight or king on any square of any board,
\* moves_on_board returns exactly the Simple moves from that square to the
\* squares of the geometric rule, each once: along each ray the empty squares
\* up to the first occupied one, and that one if it holds an opposing piece;
\* for a knight or king the on-board squares at its offsets that are empty or
\* hold an opposing piece.
C20_NonPawnGeneration ==
    (output.call = "BoardPiece::moves_on_board"
        /\ kind(get_piece_at(board, output.position)) # Pawn) =>
        LET moves == output.result.moves
        IN  /\ output.result.ok
            /\ \A i \in 1..Len(moves) :
                   moves[i].kind = "Simple" /\ moves[i].start = output.position
            /\ {moves[i].end : i \in 1..Len(moves)} = Destinations(board, output.position)
            /\ Len(moves) = Cardinality(Destinations(board, output.position))

\* C20's case: the moves of the queen on d5 have been generated; they reach
\* the opposing queen on a8 and the opposing bishop on f3, and not g2 behind it.
C20_QueenRaysStopped ==
    /\ output.call = "BoardPiece::moves_on_board"
    /\ output.position = 35
    /\ get_piece_at(board, 35) = WhiteQueen
    /\ get_piece_at(board, 56) = BlackQueen
    /\ get_piece_at(board, 21) = BlackBishop
    /\ InSeq(Simple(35, 56), output.result.moves)
    /\ InSeq(Simple(35, 21), output.result.moves)
    /\ ~InSeq(Simple(35, 14), output.result.moves)

\* C21: with no en-passant target, moves_on_board for a pawn returns exactly
\* the Simple moves of the pawn rule, each once: one square forward iff that
\* square is on the board and empty, two squares forward iff the pawn is on
\* its starting rank and both squares are empty, a forward-diagonal square iff
\* it holds an opposing piece.
C21_PawnGeneration ==
    (output.call = "BoardPiece::moves_on_board"
        /\ kind(get_piece_at(board, output.position)) = Pawn
        /\ en_passant_target = NoIndex) =>
        LET moves == output.result.moves
        IN  /\ output.result.ok
            /\ \A i \in 1..Len(moves) :
                   moves[i].kind = "Simple" /\ moves[i].start = output.position
            /\ {moves[i].end : i \in 1..Len(moves)} = PawnDestinations(board, output.position)
            /\ Len(moves) = Cardinality(PawnDestinations(board, output.position))

\* C21's case: the moves of the pawn on g2 have been generated: g3, g4 and the
\* capture of the knight on f3, and not the empty h3.
C21_AdvancesAndCapture ==
    /\ output.call = "BoardPiece::moves_on_board"
    /\ en_passant_target = NoIndex
    /\ output.position = 14
    /\ get_piece_at(board, 14) = WhitePawn
    /\ get_piece_at(board, 21) = BlackKnight
    /\ InSeq(Simple(14, 22), output.result.moves)
    /\ InSeq(Simple(14, 30), output.result.moves)
    /\ InSeq(Simple(14, 21), output.result.moves)
    /\ ~InSeq(Simple(14, 23), output.result.moves)

\* C22: when the en-passant target is a forward-diagonal square of a pawn of
\* the side to move, the generator returns the EnPassant move of that pawn,
\* capturing on the target's file and the pawn's rank; a performed EnPassant
\* move empties the pawn's origin and the captured pawn's square, puts the
\* pawn on the target, reports the captured pawn and leaves no target.
C22_EnPassantCapture ==
    /\ EnPassantCapturers # {} =>
           LET pm == all_possible_moves_for_turn(board, next_move, en_passant_target,
                                                 castling_rights)
           IN  /\ pm.ok
               /\ \A s \in EnPassantCapturers :
                      InSeq(EnPassant(en_passant_target, s, BesideOnFile(s, en_passant_target)),
                            pm.moves)
    /\ (ply > 0 /\ last_move.kind = "EnPassant") =>
           LET from == last_move.pawn_doing_en_passant
               taken == last_move.pawn_being_captured
               target == last_move.en_passant_target
           IN  /\ get_piece_at(board, from) = NoPiece
               /\ get_piece_at(board, taken) = NoPiece
               /\ get_piece_at(board, target) = get_piece_at(prev.board, from)
               /\ \A j \in 0..63 \ {from, taken, target} :
                      get_piece_at(board, j) = get_piece_at(prev.board, j)
               /\ board_after_move(prev.board, last_move).mi.captured
                      = get_piece_at(prev.board, taken)
               /\ get_piece_at(prev.board, taken) = of_color(Pawn, next_move)
               /\ en_passant_target = NoIndex

\* C23: board_after_move applied to Simple(from, to), with a piece on from and
\* to another square, returns; the board it returns holds that piece on to,
\* nothing on from and on every other square what the board held; the captured
\* piece it reports is the one the board held on to; and the board it was
\* applied to is as before.
C23_SimpleMoveFrame ==
    (/\ output.call = "Board::board_after_move"
     /\ output.move.start # output.move.end
     /\ get_piece_at(board, output.move.start) # NoPiece) =>
        LET from == output.move.start
            to == output.move.end
            r == output.result
        IN  /\ status = "done"
            /\ r.ok
            /\ get_piece_at(r.board, to) = get_piece_at(board, from)
            /\ get_piece_at(r.board, from) = NoPiece
            /\ \A s \in 0..63 \ {from, to} : get_piece_at(r.board, s) = get_piece_at(board, s)
            /\ r.mi.captured = get_piece_at(board, to)
            /\ board = prev.board

\* The same for the moves that do not take a pawn backwards.
C23_ForwardOnly ==
    (/\ output.call = "Board::board_after_move"
     /\ ~new_en_passant_target_overflows(get_piece_at(board, output.move.start),
                                         output.move.start, output.move.end))
        => C23_SimpleMoveFrame

\* C24: the clocks never overflow: a performed move that neither moves a pawn
\* nor captures leaves the half-move clock exactly one greater than before, a
\* performed move of a black piece leaves the full-move counter exactly one
\* greater than before, and from a state holding a clock of 255 and a counter of
\* 65535 no perform_move of a legal move aborts.
C24_ClocksNeverOverflow ==
    /\ (ply > 0 /\ ~(MovedPawn \/ Captured)) =>
           half_move_clock = prev.half_move_clock + 1
    /\ (ply > 0 /\ MovedPiece \in BlackPieces) =>
           full_move_counter = prev.full_move_counter + 1
    /\ (status = "ok" /\ ply = 0 /\ half_move_clock = U8Max /\ full_move_counter = U16Max) =>
           LET lm == legal_moves(Current)
           IN  /\ lm.ok
               /\ \A k \in 1..Len(lm.moves) :
                      \A o \in perform_move(Current, lm.moves[k]) : o.status = "ok"

\* The same below the top of the two types.
C24_BelowTheTop ==
    (prev.half_move_clock < U8Max /\ prev.full_move_counter < U16Max
     /\ ~(half_move_clock = U8Max /\ full_move_counter = U16Max))
        => C24_ClocksNeverOverflow

\* C25: in every state reached from the starting position by legal moves, a
\* color that holds a castling right has its king on the king's home square (e1
\* for White, e8 for Black), and while it holds the king-side (queen-side)
\* right no rook of that color has moved away from the home square of the
\* h-file (a-file).
C25_RightsMeanHome ==
    /\ RightsHeld(castling_rights) \cap {0, 1} # {} => get_piece_at(board, 4) = WhiteKing
    /\ RightsHeld(castling_rights) \cap {2, 3} # {} => get_piece_at(board, 60) = BlackKing
    /\ 0 \in RightsHeld(castling_rights) => 7 \notin left_home
    /\ 1 \in RightsHeld(castling_rights) => 0 \notin left_home
    /\ 2 \in RightsHeld(castling_rights) => 63 \notin left_home
    /\ 3 \in RightsHeld(castling_rights) => 56 \notin left_home

\* C25's case: the rook of h1 has left its square and come back, the king has
\* stayed on e1, and White holds the queen-side right alone.
C25_RookBackHome ==
    /\ input = StartingFen
    /\ status = "ok"
    /\ 7 \in left_home
    /\ get_piece_at(board, 7) = WhiteRook
    /\ get_piece_at(board, 4) = WhiteKing
    /\ RightsHeld(castling_rights) \cap {0, 1} = {1}

\* The en-passant target, when there is one, is a square passed over in a
\* two-square advance from the start rank: on rank 3 below a white pawn with
\* Black to move, or on rank 6 above a black pawn with White to move, the
\* target and the pawn's origin empty; and the EnPassant moves enumerated for
\* the side to move capture on a square that holds a pawn of the other side.
EnPassantTargetSound ==
    en_passant_target # NoIndex =>
        LET t == en_passant_target
            pm == all_possible_moves_for_turn(board, next_move, en_passant_target,
                                              castling_rights)
        IN  /\ \/ /\ rank(t) = 3
                  /\ get_piece_at(board, t + 8) = WhitePawn
                  /\ get_piece_at(board, t - 8) = NoPiece
                  /\ next_move = Black
               \/ /\ rank(t) = 6
                  /\ get_piece_at(board, t - 8) = BlackPawn
                  /\ get_piece_at(board, t + 8) = NoPiece
                  /\ next_move = White
            /\ get_piece_at(board, t) = NoPiece
            /\ pm.ok =>
                   \A i \in 1..Len(pm.moves) :
                       pm.moves[i].kind = "EnPassant" =>
                           get_piece_at(board, pm.moves[i].pawn_being_captured)
                               = of_color(Pawn, PieceColor_other(next_move))

\* C26 as stated: in every state produced by perform_move the en-passant target,
\* when present, lies on rank 3 below a white pawn with Black to move or on
\* rank 6 above a black pawn with White to move, the target and the pawn's
\* origin are empty, and every EnPassant move enumerated names a square holding
\* an opposing pawn.
C26_TargetSound ==
    ply > 0 => EnPassantTargetSound

\* C26, amended: the same in every state produced by perform_move of a move
\* taken from legal_moves.
C26_TargetSoundAfterLegalMove ==
    (ply > 0 /\ offered.ok) => EnPassantTargetSound

\* C26's case: the legal advance e2-e4 has left the target e3 beside the black
\* pawn on d4, and the en-passant capture of the pawn on e4 is enumerated.
C26_CaptureEnumerated ==
    /\ ply > 0
    /\ offered.ok
    /\ last_move = Simple(12, 28)
    /\ en_passant_target = 20
    /\ get_piece_at(board, 27) = BlackPawn
    /\ InSeq(EnPassant(20, 27, 28),
             all_possible_moves_for_turn(board, next_move, en_passant_target,
                                         castling_rights).moves)

====
